---- MODULE Spec2Model ----
(***************************************************************************)
(* RSerialDebugAssistant: the serial connection manager of                 *)
(* src-tauri/src/serial_manager.rs, its reader thread, frame segmentation, *)
(* bounded log buffer and the pure delimiter matchers.                     *)
(*                                                                         *)
(* Bytes are naturals 0..255, byte strings are sequences of bytes.         *)
(* Positions returned by the matchers are 0-based, as in the source.       *)
(* Time is counted in milliseconds; `elapsed` is last_data_time.elapsed(). *)
(***************************************************************************)
EXTENDS Integers, Sequences, FiniteSets, TLC

\* ------------------------------------------------------------------------
\* Program constants
\* ------------------------------------------------------------------------
CR == 13
LF == 10
MIN_LOG_ENTRIES == 100
MAX_LOG_ENTRIES == 10000
DEFAULT_MAX_LOG_ENTRIES == 1000
MIN_TIMEOUT_MS == 10
MAX_TIMEOUT_MS == 1000
READ_TIMEOUT_MS == 50
SLEEP_MS == 1

\* ------------------------------------------------------------------------
\* Bounds of the model
\* ------------------------------------------------------------------------
\* longest byte string handed to a pure function
MaxLen == 4
\* bytes the foreground sends per run
MaxSentBytes == 2
\* `elapsed` saturates here (above every timeout_ms the reader specifications use)
ElapsedCap == 52
\* delay of a read that returns data while it is blocked (below READ_TIMEOUT_MS)
MidReadDelayMs == 20
\* foreground changes of the segmentation config explored per run
MaxCfgChanges == 1
\* reads per generated script of the reader specification
MaxReads == 2
\* bytes of an ever-growing accumulation buffer the model keeps
MaxAcc == 3
\* frames logged before a transmitting sender falls silent
MaxLiveFrames == 1
\* characters of a hex string typed into the send box
MaxHexLen == 3
\* longest payload handed to the display formatter
MaxFormatLen == 3
\* the most fields of a version string tried
MaxVersionFields == 4
\* connect calls per run
MaxConnects == 2

\* ------------------------------------------------------------------------
\* Helpers
\* ------------------------------------------------------------------------
Min(a, b) == IF a < b THEN a ELSE b

clamp(v, lo, hi) == IF v < lo THEN lo ELSE IF v > hi THEN hi ELSE v

\* Option<(usize, usize)> / Option<usize>
None == [some |-> FALSE, pos |-> 0, len |-> 0]

Some(p, l) == [some |-> TRUE, pos |-> p, len |-> l]

\* all byte strings over alphabet of length at most n
RECURSIVE SeqsUpTo(_, _)
SeqsUpTo(alphabet, n) ==
  IF n = 0 THEN {<<>>}
  ELSE LET shorter == SeqsUpTo(alphabet, n - 1)
       IN shorter \cup {Append(s, b) : s \in {t \in shorter : Len(t) = n - 1}, b \in alphabet}

\* ------------------------------------------------------------------------
\* Delimiter matchers (pure)
\* ------------------------------------------------------------------------
\* data.windows(n).position(|w| w == delimiter), scanning from 0-based offset i
RECURSIVE WindowsPosition(_, _, _)
WindowsPosition(data, delimiter, i) ==
  IF i + Len(delimiter) > Len(data) THEN None
  ELSE IF SubSeq(data, i + 1, i + Len(delimiter)) = delimiter THEN Some(i, Len(delimiter))
  ELSE WindowsPosition(data, delimiter, i + 1)

\* mutant: no check for an empty delimiter, which then matches at offset 0
find_delimiter_matching_empty(data, delimiter) ==
  IF Len(data) < Len(delimiter) THEN None ELSE WindowsPosition(data, delimiter, 0)

\* mutant: rposition, the last window that matches
find_delimiter_last(data, delimiter) ==
  LET matches == {i \in 0..(Len(data) - Len(delimiter)) :
                    SubSeq(data, i + 1, i + Len(delimiter)) = delimiter}
  IN IF Len(delimiter) = 0 \/ matches = {} THEN None
     ELSE Some(CHOOSE i \in matches : \A j \in matches : j <= i, Len(delimiter))

find_delimiter(data, delimiter) ==
  IF Len(delimiter) = 0 \/ Len(data) < Len(delimiter) THEN None
  ELSE WindowsPosition(data, delimiter, 0)

\* the loop body of find_any_newline at 0-based index i
RECURSIVE AnyNewlineFrom(_, _)
AnyNewlineFrom(data, i) ==
  IF i >= Len(data) THEN None
  ELSE IF data[i + 1] = CR
       THEN IF i + 1 < Len(data) /\ data[i + 2] = LF THEN Some(i, 2) ELSE Some(i, 1)
  ELSE IF data[i + 1] = LF THEN Some(i, 1)
  ELSE AnyNewlineFrom(data, i + 1)

\* mutant: the CRLF look-ahead is dropped, every CR is a boundary of length 1
RECURSIVE AnyNewlineNoLookahead(_, _)
AnyNewlineNoLookahead(data, i) ==
  IF i >= Len(data) THEN None
  ELSE IF data[i + 1] = CR \/ data[i + 1] = LF THEN Some(i, 1)
  ELSE AnyNewlineNoLookahead(data, i + 1)

find_any_newline_no_crlf(data) == AnyNewlineNoLookahead(data, 0)

find_any_newline(data) == AnyNewlineFrom(data, 0)

\* ------------------------------------------------------------------------
\* Frame segmentation types
\* ------------------------------------------------------------------------
FrameSegmentationMode == {"Timeout", "Combined"}

AnyNewline == [kind |-> "AnyNewline", bytes |-> <<>>]
DelimCR == [kind |-> "CR", bytes |-> <<>>]
DelimLF == [kind |-> "LF", bytes |-> <<>>]
DelimCRLF == [kind |-> "CRLF", bytes |-> <<>>]
Custom(bytes) == [kind |-> "Custom", bytes |-> bytes]

to_bytes(delimiter) ==
  CASE delimiter.kind = "AnyNewline" -> <<>>
    [] delimiter.kind = "CR" -> <<CR>>
    [] delimiter.kind = "LF" -> <<LF>>
    [] delimiter.kind = "CRLF" -> <<CR, LF>>
    [] delimiter.kind = "Custom" -> delimiter.bytes

is_any_newline(delimiter) == delimiter.kind = "AnyNewline"

FrameSegmentationConfig(mode, timeout_ms, delimiter) ==
  [mode |-> mode, timeout_ms |-> timeout_ms, delimiter |-> delimiter]

DefaultFrameSegmentationConfig == FrameSegmentationConfig("Timeout", 10, AnyNewline)

\* ------------------------------------------------------------------------
\* Display formatting (format_bytes_as_hex, format_bytes_as_text, format_data_for_display);
\* a String is the sequence of its code points
\* ------------------------------------------------------------------------
SpecialCharConfig(enabled, convert_lf, convert_cr, convert_tab, convert_null, convert_esc,
                  convert_spaces) ==
  [enabled |-> enabled, convert_lf |-> convert_lf, convert_cr |-> convert_cr,
   convert_tab |-> convert_tab, convert_null |-> convert_null, convert_esc |-> convert_esc,
   convert_spaces |-> convert_spaces]

\* SpecialCharConfig::default()
DefaultSpecialCharConfig == SpecialCharConfig(TRUE, TRUE, TRUE, TRUE, TRUE, TRUE, TRUE)

DisplaySettings(format, encoding, special_char_config, show_timestamps) ==
  [format |-> format, encoding |-> encoding, special_char_config |-> special_char_config,
   show_timestamps |-> show_timestamps]

\* DisplaySettings::default()
DefaultDisplaySettings == DisplaySettings("Txt", "Utf8", DefaultSpecialCharConfig, TRUE)

\* the characters of format!("{:02X}", b): '0'..'9', 'A'..'F'
hex_digit(d) == IF d < 10 THEN 48 + d ELSE 55 + d

\* data.iter().map(|b| format!("{:02X}", b)).collect::<Vec<_>>().join(" ")
RECURSIVE format_bytes_as_hex(_)
format_bytes_as_hex(data) ==
  IF data = <<>> THEN <<>>
  ELSE LET b == Head(data)
           two == <<hex_digit(b \div 16), hex_digit(b % 16)>>
       IN IF Len(data) = 1 THEN two ELSE two \o <<32>> \o format_bytes_as_hex(Tail(data))

DecodeErr == [ok |-> FALSE, text |-> <<>>]

DecodeOk(text) == [ok |-> TRUE, text |-> text]

\* a UTF-8 continuation byte
is_continuation(b) == b \in 128..191

\* std::str::from_utf8: Err at the first byte sequence that is not well-formed UTF-8
\* (overlong forms, surrogates and values above U+10FFFF are refused)
RECURSIVE from_utf8(_)
from_utf8(data) ==
  IF data = <<>> THEN DecodeOk(<<>>)
  ELSE
    LET b == data[1]
        n == Len(data)
        width == IF b < 128 THEN 1
                 ELSE IF b \in 194..223 THEN 2
                 ELSE IF b \in 224..239 THEN 3
                 ELSE IF b \in 240..244 THEN 4
                 ELSE 0
        second_ok ==
          /\ n >= 2
          /\ CASE b = 224 -> data[2] \in 160..191
               [] b = 237 -> data[2] \in 128..159
               [] b = 240 -> data[2] \in 144..191
               [] b = 244 -> data[2] \in 128..143
               [] OTHER   -> is_continuation(data[2])
        well_formed ==
          /\ width > 0
          /\ n >= width
          /\ width >= 2 => second_ok
          /\ \A i \in 3..width : is_continuation(data[i])
        code_point ==
          CASE width = 1 -> b
            [] width = 2 -> (b - 192) * 64 + (data[2] - 128)
            [] width = 3 -> (b - 224) * 4096 + (data[2] - 128) * 64 + (data[3] - 128)
            [] OTHER     -> (b - 240) * 262144 + (data[2] - 128) * 4096
                              + (data[3] - 128) * 64 + (data[4] - 128)
    IN IF ~well_formed THEN DecodeErr
       ELSE LET rest == from_utf8(SubSeq(data, width + 1, n))
            IN IF rest.ok THEN DecodeOk(<<code_point>> \o rest.text) ELSE DecodeErr

\* the rows of the GBK index for the lead and trail bytes of FormatBytes
GbkIndex ==
  [p \in {144, 208, 214} \X {65, 144, 208, 214} |->
     CASE p = <<144, 65>>  -> 24585
       [] p = <<144, 144>> -> 24729
       [] p = <<144, 208>> -> 24843
       [] p = <<144, 214>> -> 24852
       [] p = <<208, 65>>  -> 34853
       [] p = <<208, 144>> -> 34967
       [] p = <<208, 208>> -> 34892
       [] p = <<208, 214>> -> 20804
       [] p = <<214, 65>>  -> 35557
       [] p = <<214, 144>> -> 35637
       [] p = <<214, 208>> -> 20013
       [] OTHER            -> 31181]

\* encoding_rs::GBK.decode(data): had_errors is reported at a byte 0xFF, at a lead byte
\* 0x81..0xFE that ends the input, and at a lead byte followed by a byte that is no
\* trail byte (0x40..0x7E, 0x80..0xFE); 0x80 decodes to U+20AC. Four-byte sequences
\* (a lead byte followed by '0'..'9') are outside FormatBytes.
RECURSIVE gbk_decode(_)
gbk_decode(data) ==
  IF data = <<>> THEN DecodeOk(<<>>)
  ELSE
    LET b == data[1]
        n == Len(data)
    IN IF b < 128
       THEN LET rest == gbk_decode(Tail(data))
            IN IF rest.ok THEN DecodeOk(<<b>> \o rest.text) ELSE DecodeErr
       ELSE IF b = 128
       THEN LET rest == gbk_decode(Tail(data))
            IN IF rest.ok THEN DecodeOk(<<8364>> \o rest.text) ELSE DecodeErr
       ELSE IF b = 255 \/ n < 2 THEN DecodeErr
       ELSE IF data[2] \notin ((64..126) \cup (128..254)) THEN DecodeErr
       ELSE LET rest == gbk_decode(SubSeq(data, 3, n))
            IN IF rest.ok THEN DecodeOk(<<GbkIndex[<<b, data[2]>>]>> \o rest.text)
               ELSE DecodeErr

\* str::replace(from, to) with a single character on both sides
replace_char(text, from, to) == [i \in 1..Len(text) |-> IF text[i] = from THEN to ELSE text[i]]

\* line.trim_end_matches(' ')
RECURSIVE trim_end_spaces(_)
trim_end_spaces(line) ==
  IF line # <<>> /\ line[Len(line)] = 32 THEN trim_end_spaces(SubSeq(line, 1, Len(line) - 1))
  ELSE line

\* str::split('\n'): one more piece than there are line feeds
RECURSIVE split_lines(_, _)
split_lines(text, piece) ==
  IF text = <<>> THEN <<piece>>
  ELSE IF Head(text) = LF THEN <<piece>> \o split_lines(Tail(text), <<>>)
  ELSE split_lines(Tail(text), Append(piece, Head(text)))

\* the first loop of the convert_spaces block: the lines are joined again, a '\n' being
\* pushed only when new_result is not empty, each with its trailing spaces as U+2423
RECURSIVE join_trailing_converted(_, _)
join_trailing_converted(lines, new_result) ==
  IF lines = <<>> THEN new_result
  ELSE LET line == Head(lines)
           trimmed_end == trim_end_spaces(line)
           trailing_spaces == Len(line) - Len(trimmed_end)
           joined == IF new_result # <<>> THEN Append(new_result, LF) ELSE new_result
       IN join_trailing_converted(Tail(lines),
            joined \o trimmed_end \o [i \in 1..trailing_spaces |-> 9251])

\* the second loop: a run of two or more spaces becomes as many U+2423, a single space
\* stays
convert_space_runs(text) ==
  [i \in 1..Len(text) |->
     IF /\ text[i] = 32
        /\ \/ i > 1 /\ text[i - 1] = 32
           \/ i < Len(text) /\ text[i + 1] = 32
     THEN 9251 ELSE text[i]]

\* the special character visualization of format_bytes_as_text
visualize(text, special_chars) ==
  LET r1 == IF special_chars.convert_lf THEN replace_char(text, LF, 9226) ELSE text
      r2 == IF special_chars.convert_cr THEN replace_char(r1, CR, 9229) ELSE r1
      r3 == IF special_chars.convert_tab THEN replace_char(r2, 9, 9225) ELSE r2
      r4 == IF special_chars.convert_null THEN replace_char(r3, 0, 9216) ELSE r3
      r5 == IF special_chars.convert_esc THEN replace_char(r4, 27, 9243) ELSE r4
  IN IF special_chars.convert_spaces
     THEN convert_space_runs(join_trailing_converted(split_lines(r5, <<>>), <<>>))
     ELSE r5

\* String::from_utf8_lossy on a payload without multi-byte sequences: ASCII bytes are
\* kept, every other byte becomes U+FFFD
from_utf8_lossy(data) == [i \in 1..Len(data) |-> IF data[i] < 128 THEN data[i] ELSE 65533]

\* mutant: a payload that does not decode is shown lossily instead of as hex
format_bytes_as_text_lossy(data, encoding, special_chars) ==
  LET decoded == IF encoding = "Utf8" THEN from_utf8(data) ELSE gbk_decode(data)
      text == IF decoded.ok THEN decoded.text ELSE from_utf8_lossy(data)
  IN IF ~special_chars.enabled THEN text ELSE visualize(text, special_chars)

format_bytes_as_text(data, encoding, special_chars) ==
  LET decoded == IF encoding = "Utf8" THEN from_utf8(data) ELSE gbk_decode(data)
  IN IF ~decoded.ok THEN format_bytes_as_hex(data)
     ELSE IF ~special_chars.enabled THEN decoded.text
     ELSE visualize(decoded.text, special_chars)

format_data_for_display(data, settings) ==
  IF settings.format = "Hex" THEN format_bytes_as_hex(data)
  ELSE format_bytes_as_text(data, settings.encoding, settings.special_char_config)

\* ------------------------------------------------------------------------
\* Log buffer (pure parts)
\* ------------------------------------------------------------------------
\* `arrival` is the ordinal of the push into the buffer since the last clear. The two
\* pre-rendered fields of an entry are kept as `rendered_with`, the DisplaySettings they
\* were rendered under when the entry was built; display_text and timestamp_formatted
\* give their values.
LogEntry(direction, data, arrival, settings) ==
  [direction |-> direction, data |-> data, arrival |-> arrival, rendered_with |-> settings]

\* LogEntry.display_text
display_text(log_entry) == format_data_for_display(log_entry.data, log_entry.rendered_with)

\* LogEntry.timestamp_formatted: Some(format_timestamp_with_offset(tz_offset)) or None
timestamp_formatted(log_entry) ==
  IF log_entry.rendered_with.show_timestamps THEN {"formatted"} ELSE {}

\* while q.len() > max { q.pop_front(); }: the loop runs len - max times when the
\* buffer is over the limit, each pass dropping the entry at the front
pop_front_while_over(q, max) ==
  IF Len(q) > max THEN [i \in 1..max |-> q[i + (Len(q) - max)]] ELSE q

\* mutant: evicts from the back (pop_back), dropping the newest entries
pop_back_while_over(q, max) ==
  IF Len(q) > max THEN [i \in 1..max |-> q[i]] ELSE q

add_log_evict_newest(q, log_entry, max) == pop_back_while_over(Append(q, log_entry), max)

\* add_log: push_back then evict from the front under the logs lock
add_log(q, log_entry, max) == pop_front_while_over(Append(q, log_entry), max)

\* mutant: set_max_log_entries keeps the oldest entries instead of the newest
trim_existing_logs_keep_oldest(q, max) == pop_back_while_over(q, max)

\* set_max_log_entries: "Trim existing logs if necessary"
trim_existing_logs(q, max) == pop_front_while_over(q, max)

\* mutant: the reader trims to one entry more than the limit
reader_push_log_off_by_one(q, log_entry, max) ==
  pop_front_while_over(Append(q, log_entry), max + 1)

\* the reader thread's copy of push_back + eviction
reader_push_log(q, log_entry, max) == pop_front_while_over(Append(q, log_entry), max)

\* ------------------------------------------------------------------------
\* State
\* ------------------------------------------------------------------------
VARIABLES
  \* SerialManager fields
  current_port, config, is_connected, port_name, logs, stats, shutdown_flag,
  max_log_entries, frame_segmentation_config, display_settings,
  text_file, raw_file, text_file_path, raw_file_path,
  \* reader thread locals and its position in the loop ("none" before the first connect);
  \* data_len is the length of a frame already pushed to the log and not yet added to
  \* bytes_received (0 when there is none)
  reader_pc, seg_config, disp_settings, accumulated_data, elapsed, data_len,
  \* the foreground caller: position inside set_max_log_entries, disconnect or connect,
  \* the call's arguments and locals, the result of the last completed call
  fg_pc, fg_arg, fg_max_entries, fg_port_name, fg_config, ret,
  \* environment: the scripted chunks the transport will return to successive reads, those
  \* it has returned so far, and whether the sender keeps transmitting beyond the script
  wire, reads, flooding,
  \* what has been written: the payloads written to the transport, the lines written to
  \* text recording files, the bytes written to raw recording files
  port_out, text_out, raw_out,
  \* the last application of a pure function: [fn, data, out]
  call,
  \* history: pushes since the last clear, whether the limit changed since then,
  \* frames emitted by the current reader, per accumulated byte whether it arrived
  \* after an idle gap longer than timeout_ms, foreground config changes so far,
  \* connect calls so far, the manager as it was when the running connect was called
  log_seq, limit_changed, emitted, acc_late, cfg_changes, connects, pre,
  \* one tracked byte: 0 none yet, k > 0 its position in accumulated_data, -1 emitted;
  \* whether more bytes were accumulated than the model keeps (MaxAcc)
  mark, acc_overflow,
  \* the mutexes of the shared fields: who holds each one, and for the reader thread and
  \* the foreground caller the lock and drop steps still to take before the thread is at
  \* reader_pc, or the call has returned
  lock_owner, reader_todo, fg_todo

mgrVars == <<is_connected, shutdown_flag, stats, frame_segmentation_config>>
connVars == <<current_port, config, port_name>>
recVars == <<text_file, raw_file, text_file_path, raw_file_path>>
outVars == <<port_out, text_out, raw_out>>
logVars == <<logs, max_log_entries, log_seq, limit_changed>>
readerVars == <<reader_pc, seg_config, accumulated_data, elapsed, data_len, acc_late, emitted, mark, acc_overflow>>
envVars == <<wire, reads, flooding>>
fgVars == <<fg_pc, fg_arg, fg_max_entries, cfg_changes>>
callVars == <<fg_port_name, fg_config, ret, connects, pre>>
sessVars == <<connVars, recVars, outVars, callVars>>
dispVars == <<display_settings, disp_settings>>
lockVars == <<lock_owner, reader_todo, fg_todo>>
vars == <<mgrVars, logVars, readerVars, fgVars, envVars, sessVars, call, dispVars, lockVars>>

NoCall == [fn |-> "none", data |-> <<>>, out |-> None]

\* the Mutex fields of SerialManager
Mutexes ==
  {"frame_segmentation_config", "display_settings", "logs", "max_log_entries", "stats",
   "text_file", "raw_file", "text_file_path", "raw_file_path", "timezone_offset_minutes",
   "log_directory"}

\* Option::None of the manager's optional fields
NoValue == {}
Present(value) == {value}
ValueOf(option) == CHOOSE value \in option : TRUE

\* SerialStats::default()
DefaultSerialStats == [bytes_sent |-> 0, bytes_received |-> 0, connection_time |-> NoValue]

\* SerialConfig::default(): the fields the manager reads are the port parameters
DefaultSerialConfig == [baud_rate |-> 115200]

PortNames == {"COM1", "COM2"}

\* what get_status and get_recording_status report, with the handles behind them
\* SerialManager::get_status
get_status ==
  [is_connected |-> is_connected, port_name |-> port_name, config |-> config,
   bytes_sent |-> stats.bytes_sent, bytes_received |-> stats.bytes_received,
   connection_time |-> stats.connection_time]

get_recording_status ==
  [text_recording_active |-> text_file, raw_recording_active |-> raw_file,
   text_file_path |-> text_file_path, raw_file_path |-> raw_file_path]

\* the connection state a caller can tell apart: what get_status and get_recording_status
\* report, and the port handle
ConnectionView ==
  [is_connected |-> is_connected, port_name |-> port_name, config |-> config,
   current_port |-> current_port, bytes_sent |-> stats.bytes_sent,
   connection_time |-> stats.connection_time, text_file |-> text_file,
   raw_file |-> raw_file, text_file_path |-> text_file_path,
   raw_file_path |-> raw_file_path]

ManagerView ==
  [is_connected |-> is_connected, port_name |-> port_name, config |-> config,
   current_port |-> current_port, shutdown_flag |-> shutdown_flag, stats |-> stats,
   logs |-> logs, text_file |-> text_file, raw_file |-> raw_file,
   text_file_path |-> text_file_path, raw_file_path |-> raw_file_path,
   reader_pc |-> reader_pc]

\* n0 Received entries pushed under limit `limit`, none evicted (n0 <= limit)
PrefilledLogs(n0) == [i \in 1..n0 |-> LogEntry("Received", <<65>>, i, DefaultDisplaySettings)]

\* what every initial state shares: nothing written, no call made, reader locals fresh
InitCommon ==
  /\ shutdown_flag = FALSE
  /\ limit_changed = FALSE
  /\ text_file = FALSE
  /\ raw_file = FALSE
  /\ text_file_path = NoValue
  /\ raw_file_path = NoValue
  /\ seg_config = DefaultFrameSegmentationConfig
  /\ display_settings = DefaultDisplaySettings
  /\ disp_settings = DefaultDisplaySettings
  /\ accumulated_data = <<>>
  /\ elapsed = 0
  /\ data_len = 0
  /\ acc_late = <<>>
  /\ emitted = <<>>
  /\ fg_pc = "idle"
  /\ fg_arg = 0
  /\ fg_max_entries = 0
  /\ fg_port_name = NoValue
  /\ fg_config = NoValue
  /\ ret = [op |-> "none", result |-> "none"]
  /\ cfg_changes = 0
  /\ pre = NoValue
  /\ reads = <<>>
  /\ port_out = <<>>
  /\ text_out = <<>>
  /\ raw_out = <<>>
  /\ mark = 0
  /\ acc_overflow = FALSE
  /\ call = NoCall
  /\ lock_owner = [m \in Mutexes |-> "free"]
  /\ reader_todo = <<>>
  /\ fg_todo = <<>>

\* The state right after a successful connect(): empty or previously filled log buffer
\* (logs survive a disconnect, statistics do not), the reader thread at the top of its loop.
InitWith(scripts, configs, prefills, floods) ==
  /\ InitCommon
  /\ current_port = TRUE
  /\ config = Present(DefaultSerialConfig)
  /\ is_connected = TRUE
  /\ port_name = Present("COM1")
  /\ stats = [DefaultSerialStats EXCEPT !.connection_time = Present("now")]
  /\ frame_segmentation_config \in configs
  /\ \E prefill \in prefills :
       /\ max_log_entries = prefill[1]
       /\ logs = PrefilledLogs(prefill[2])
       /\ log_seq = prefill[2]
  /\ reader_pc = "loop"
  /\ connects = 1
  /\ wire \in scripts
  /\ flooding \in floods

\* SerialManager::new(), with the segmentation config a caller has set before connecting
InitNew(scripts, configs) ==
  /\ InitCommon
  /\ current_port = FALSE
  /\ config = NoValue
  /\ is_connected = FALSE
  /\ port_name = NoValue
  /\ stats = DefaultSerialStats
  /\ frame_segmentation_config \in configs
  /\ max_log_entries = DEFAULT_MAX_LOG_ENTRIES
  /\ logs = <<>>
  /\ log_seq = 0
  /\ reader_pc = "none"
  /\ connects = 0
  /\ wire \in scripts
  /\ flooding = FALSE

\* ------------------------------------------------------------------------
\* Reader thread (the closure spawned by connect)
\* ------------------------------------------------------------------------
\* last_data_time.elapsed() after `ms` more milliseconds with `acc` accumulated. The
\* reader reads the clock only behind !accumulated_data.is_empty() (short-circuit &&),
\* and a buffer becomes non-empty only by a read that resets last_data_time, so while
\* the buffer is empty the value is dead and is kept at 0.
Advance(t, ms, acc) == IF acc = <<>> THEN 0 ELSE Min(t + ms, ElapsedCap)

\* mutant: the line is written whether or not there is a handle
write_to_text_file_unguarded(out, handle, data, dir_label) ==
  Append(out, [dir_label |-> dir_label, text |-> from_utf8_lossy(data)])

\* writeln!(file, "[{}] {}: {}", timestamp, dir_label, text) on the handle, if there is one
write_to_text_file(out, handle, data, dir_label) ==
  IF handle THEN Append(out, [dir_label |-> dir_label, text |-> from_utf8_lossy(data)]) ELSE out

\* file.write_all(data) on the handle, if there is one
write_to_raw_file(out, handle, data) == IF handle THEN out \o data ELSE out

\* The first half of a frame's emission: let data_len = frame_data.len(), the line for the
\* text recording, then the LogEntry push with eviction under the logs lock. The
\* statistics update follows in a lock section of its own.
EmitFrame(frame_data, frame_late, cause) ==
  /\ data_len' = Len(frame_data)
  /\ text_out' = write_to_text_file(text_out, text_file, frame_data, "RX")
  /\ logs' = reader_push_log(logs, LogEntry("Received", frame_data, log_seq + 1, disp_settings), max_log_entries)
  /\ log_seq' = log_seq + 1
  /\ emitted' = Append(emitted, [data |-> frame_data, cause |-> cause, mode |-> seg_config.mode,
                                 timeout_ms |-> seg_config.timeout_ms, elapsed |-> elapsed,
                                 delimiter |-> seg_config.delimiter, late |-> frame_late])
  /\ UNCHANGED <<mgrVars, max_log_entries, limit_changed, seg_config, elapsed, acc_overflow,
                 fgVars, envVars, connVars, recVars, port_out, raw_out, callVars, call, dispVars, lockVars>>

\* mutant: the statistics count frames, not bytes
CountFrameAsOne ==
  /\ stats' = [stats EXCEPT !.bytes_received = @ + 1]
  /\ data_len' = 0
  /\ UNCHANGED <<is_connected, shutdown_flag, frame_segmentation_config, logVars, seg_config,
                 emitted, acc_overflow, fgVars, envVars, sessVars, call, dispVars, lockVars>>

\* stats_guard.bytes_received += data_len as u64
CountFrame ==
  /\ stats' = [stats EXCEPT !.bytes_received = @ + data_len]
  /\ data_len' = 0
  /\ UNCHANGED <<is_connected, shutdown_flag, frame_segmentation_config, logVars, seg_config,
                 emitted, acc_overflow, fgVars, envVars, sessVars, call, dispVars, lockVars>>

\* mutant: a reader that sees the shutdown flag logs what it has accumulated before it ends
ReaderBeginFlushingOnExit ==
  /\ reader_pc = "loop"
  /\ IF shutdown_flag
     THEN /\ reader_pc' = "exited"
          /\ IF accumulated_data # <<>>
             THEN /\ EmitFrame(accumulated_data, acc_late, "timeout")
                  /\ UNCHANGED <<accumulated_data, acc_late, mark, disp_settings>>
             ELSE UNCHANGED <<mgrVars, logVars, seg_config, disp_settings, accumulated_data,
                              elapsed, data_len, acc_late, emitted, mark, acc_overflow, fgVars,
                              envVars, sessVars, call, display_settings, lockVars>>
     ELSE /\ reader_pc' = "read"
          /\ seg_config' = frame_segmentation_config
          /\ disp_settings' = display_settings
          /\ UNCHANGED <<mgrVars, logVars, accumulated_data, elapsed, data_len, acc_late,
                         emitted, mark, acc_overflow, fgVars, envVars, sessVars, call,
                         display_settings, lockVars>>

\* top of the loop: shutdown check, then the config snapshot
ReaderBegin ==
  /\ reader_pc = "loop"
  /\ IF shutdown_flag
     THEN reader_pc' = "exited" /\ UNCHANGED <<seg_config, disp_settings>>
     ELSE /\ reader_pc' = "read"
          /\ seg_config' = frame_segmentation_config
          /\ disp_settings' = display_settings
  /\ UNCHANGED <<mgrVars, logVars, accumulated_data, elapsed, data_len, acc_late, emitted,
                 mark, acc_overflow, fgVars, envVars, sessVars, call, display_settings,
                 lockVars>>

\* Ok(bytes_read) if bytes_read > 0: received_bytes arrive after the read blocked for d ms;
\* track > 0 makes the track-th of them the tracked byte
DataBranch(received_bytes, d, track) ==
  /\ reader_pc = "read"
  /\ track <= Len(received_bytes)
  /\ track > 0 => mark = 0
  /\ LET gap_exceeded == accumulated_data # <<>> /\ elapsed + d > seg_config.timeout_ms
     IN /\ accumulated_data' = accumulated_data \o received_bytes
        /\ acc_late' = acc_late \o [i \in 1..Len(received_bytes) |-> i = 1 /\ gap_exceeded]
  /\ mark' = IF track > 0 THEN Len(accumulated_data) + track ELSE mark
  /\ elapsed' = 0
  /\ raw_out' = write_to_raw_file(raw_out, raw_file, received_bytes)
  /\ reader_pc' = "scan"
  /\ UNCHANGED <<mgrVars, logVars, seg_config, data_len, emitted, acc_overflow, fgVars,
                 connVars, recVars, port_out, text_out, callVars, call, dispVars, lockVars>>

\* mutant: the read replaces the accumulation buffer instead of extending it
ReaderReadDataReplacing(d, track) ==
  /\ wire # <<>>
  /\ wire' = Tail(wire)
  /\ reader_pc = "read"
  /\ track <= Len(Head(wire))
  /\ track > 0 => mark = 0
  /\ accumulated_data' = Head(wire)
  /\ acc_late' = [i \in 1..Len(Head(wire)) |-> FALSE]
  /\ mark' = IF track > 0 THEN track ELSE mark
  /\ elapsed' = 0
  /\ reads' = Append(reads, Head(wire))
  /\ reader_pc' = "scan"
  /\ UNCHANGED <<mgrVars, logVars, seg_config, data_len, emitted, acc_overflow, fgVars,
                 flooding, sessVars, call, dispVars, lockVars>>

\* read() returns the next chunk of the script
ReaderReadData(d, track) ==
  /\ wire # <<>>
  /\ wire' = Tail(wire)
  /\ reads' = Append(reads, Head(wire))
  /\ DataBranch(Head(wire), d, track)
  /\ UNCHANGED flooding

\* read() returns one more byte 'A' of a sender that transmits a byte every MidReadDelayMs.
\* Beyond MaxAcc accumulated bytes the byte is only recorded as acc_overflow: the frame
\* logged later is then longer than the model shows.
ReaderReadFlood(track) ==
  /\ flooding
  /\ wire = <<>>
  /\ log_seq < MaxLiveFrames
  /\ IF Len(accumulated_data) < MaxAcc
     THEN DataBranch(<<65>>, MidReadDelayMs, track) /\ UNCHANGED <<envVars, dispVars, lockVars>>
     ELSE /\ reader_pc = "read"
          /\ track = 0
          /\ acc_overflow' = TRUE
          /\ elapsed' = 0
          /\ reader_pc' = "scan"
          /\ raw_out' = write_to_raw_file(raw_out, raw_file, <<65>>)
          /\ UNCHANGED <<mgrVars, logVars, seg_config, accumulated_data, data_len, acc_late,
                         emitted, mark, fgVars, envVars, connVars, recVars, port_out,
                         text_out, callVars, call, dispVars, lockVars>>

\* the frame a delimiter match at (pos, len) cuts off the front of the buffer:
\* drain(..frame_end), then the first half of the emission
DrainFrame(m) ==
  LET frame_end == m.pos + m.len
  IN /\ EmitFrame(SubSeq(accumulated_data, 1, frame_end), SubSeq(acc_late, 1, frame_end), "delimiter")
     /\ accumulated_data' = SubSeq(accumulated_data, frame_end + 1, Len(accumulated_data))
     /\ acc_late' = SubSeq(acc_late, frame_end + 1, Len(acc_late))
     /\ mark' = IF mark > 0 THEN (IF mark <= frame_end THEN -1 ELSE mark - frame_end) ELSE mark
     /\ reader_pc' = "scan_stats"

\* one pass of: while let Some((pos, len)) = find_any_newline(&accumulated_data)
ReaderEmitAnyNewlineFrame ==
  /\ reader_pc = "scan"
  /\ seg_config.mode = "Combined"
  /\ is_any_newline(seg_config.delimiter)
  /\ find_any_newline(accumulated_data).some
  /\ DrainFrame(find_any_newline(accumulated_data))

\* one pass of: while let Some(pos) = find_delimiter(&accumulated_data, &delimiter_bytes)
ReaderEmitDelimiterFrame ==
  /\ reader_pc = "scan"
  /\ seg_config.mode = "Combined"
  /\ ~is_any_newline(seg_config.delimiter)
  /\ find_delimiter(accumulated_data, to_bytes(seg_config.delimiter)).some
  /\ DrainFrame(find_delimiter(accumulated_data, to_bytes(seg_config.delimiter)))

\* the end of a pass of either while-let loop: the statistics update
ReaderCountDelimiterFrame ==
  /\ reader_pc = "scan_stats"
  /\ CountFrame
  /\ reader_pc' = "scan"
  /\ UNCHANGED <<accumulated_data, elapsed, acc_late, mark, dispVars, lockVars>>

\* mutant: the scan is an `if let`, it stops after at most one frame
ReaderScanDoneAfterOnePass ==
  /\ reader_pc = "scan"
  /\ reader_pc' = "loop"
  /\ UNCHANGED <<mgrVars, logVars, seg_config, accumulated_data, elapsed, data_len, acc_late,
                 emitted, mark, acc_overflow, fgVars, envVars, sessVars, call, dispVars, lockVars>>

\* the data branch ends: not Combined, or the while-let loop finds no further boundary
ReaderScanDone ==
  /\ reader_pc = "scan"
  /\ \/ seg_config.mode # "Combined"
     \/ IF is_any_newline(seg_config.delimiter)
        THEN ~find_any_newline(accumulated_data).some
        ELSE ~find_delimiter(accumulated_data, to_bytes(seg_config.delimiter)).some
  /\ reader_pc' = "loop"
  /\ UNCHANGED <<mgrVars, logVars, seg_config, accumulated_data, elapsed, data_len, acc_late,
                 emitted, mark, acc_overflow, fgVars, envVars, sessVars, call, dispVars, lockVars>>

\* read() returns Ok(0)
ReaderReadZero ==
  /\ reader_pc = "read"
  /\ reader_pc' = "ok0"
  /\ UNCHANGED <<mgrVars, logVars, seg_config, accumulated_data, elapsed, data_len, acc_late,
                 emitted, mark, acc_overflow, fgVars, envVars, sessVars, call, dispVars, lockVars>>

\* read() returns Err(TimedOut) after the transport's read timeout
ReaderReadTimedOut ==
  /\ reader_pc = "read"
  /\ reader_pc' = "timedout"
  /\ elapsed' = Advance(elapsed, READ_TIMEOUT_MS, accumulated_data)
  /\ UNCHANGED <<mgrVars, logVars, seg_config, accumulated_data, data_len, acc_late,
                 emitted, mark, acc_overflow, fgVars, envVars, sessVars, call, dispVars, lockVars>>

\* mutant: a read error also marks the manager as disconnected
ReaderReadErrorDisconnecting ==
  /\ reader_pc = "read"
  /\ reader_pc' = "exited"
  /\ is_connected' = FALSE
  /\ UNCHANGED <<shutdown_flag, stats, frame_segmentation_config, logVars, seg_config,
                 accumulated_data, elapsed, data_len, acc_late, emitted, mark, acc_overflow,
                 fgVars, envVars, sessVars, call, dispVars, lockVars>>

\* read() returns any other error: the loop breaks
ReaderReadError ==
  /\ reader_pc = "read"
  /\ reader_pc' = "exited"
  /\ UNCHANGED <<mgrVars, logVars, seg_config, accumulated_data, elapsed, data_len, acc_late,
                 emitted, mark, acc_overflow, fgVars, envVars, sessVars, call, dispVars, lockVars>>

\* mutant: flushes as soon as elapsed reaches timeout_ms (>= for >)
should_flush_timeout_at_threshold ==
  /\ seg_config.mode = "Timeout" \/ seg_config.mode = "Combined"
  /\ accumulated_data # <<>>
  /\ elapsed >= seg_config.timeout_ms

\* mutant: the timeout trigger is active in Timeout mode only
should_flush_timeout_in_timeout_mode_only ==
  /\ seg_config.mode = "Timeout"
  /\ accumulated_data # <<>>
  /\ elapsed > seg_config.timeout_ms

should_flush_timeout ==
  /\ seg_config.mode = "Timeout" \/ seg_config.mode = "Combined"
  /\ accumulated_data # <<>>
  /\ elapsed > seg_config.timeout_ms

\* the body shared by the Ok(0) and Err(TimedOut) branches up to the LogEntry push:
\* the first half of the emission of the whole buffer, or straight to the 1 ms sleep
TimeoutFlush ==
  IF should_flush_timeout
  THEN /\ EmitFrame(accumulated_data, acc_late, "timeout")
       /\ mark' = IF mark > 0 THEN -1 ELSE mark
       /\ reader_pc' = "flush_stats"
       /\ UNCHANGED <<accumulated_data, acc_late, dispVars, lockVars>>
  ELSE /\ elapsed' = Advance(elapsed, SLEEP_MS, accumulated_data)
       /\ reader_pc' = "loop"
       /\ UNCHANGED <<mgrVars, logVars, seg_config, accumulated_data, data_len, acc_late,
                      emitted, mark, acc_overflow, fgVars, envVars, sessVars, call, dispVars, lockVars>>

ReaderFlushOk0 == reader_pc = "ok0" /\ TimeoutFlush

ReaderFlushTimedOut == reader_pc = "timedout" /\ TimeoutFlush

\* mutant: the flushed buffer is not cleared
ReaderCountTimeoutFrameKeepingBuffer ==
  /\ reader_pc = "flush_stats"
  /\ CountFrame
  /\ elapsed' = Advance(elapsed, SLEEP_MS, accumulated_data)
  /\ reader_pc' = "loop"
  /\ UNCHANGED <<accumulated_data, acc_late, mark>>

\* the rest of a timeout flush: the statistics update, accumulated_data.clear(), the sleep
ReaderCountTimeoutFrame ==
  /\ reader_pc = "flush_stats"
  /\ CountFrame
  /\ accumulated_data' = <<>>
  /\ acc_late' = <<>>
  /\ elapsed' = Advance(elapsed, SLEEP_MS, <<>>)
  /\ reader_pc' = "loop"
  /\ UNCHANGED mark

\* ------------------------------------------------------------------------
\* Foreground operations (serialized by the caller's lock on the manager)
\* ------------------------------------------------------------------------
Returned(op, result) == [op |-> op, result |-> result]

\* mutant: the sent bytes are not counted
SendDataUncounted(data) ==
  /\ fg_pc = "idle"
  /\ is_connected
  /\ current_port
  /\ Len(port_out) + Len(data) <= MaxSentBytes
  /\ port_out' = port_out \o data
  /\ text_out' = write_to_text_file(text_out, text_file, data, "TX")
  /\ raw_out' = write_to_raw_file(raw_out, raw_file, data)
  /\ logs' = add_log(logs, LogEntry("Sent", data, log_seq + 1, display_settings), max_log_entries)
  /\ log_seq' = log_seq + 1
  /\ ret' = Returned("send_data", "Ok")
  /\ UNCHANGED <<mgrVars, max_log_entries, limit_changed, readerVars, fgVars, envVars, connVars,
                 recVars, fg_port_name, fg_config, connects, pre, call, dispVars, lockVars>>

\* send_data on a connected manager whose transport write succeeds
SendData(data) ==
  /\ fg_pc = "idle"
  /\ is_connected
  /\ current_port
  /\ Len(port_out) + Len(data) <= MaxSentBytes
  /\ port_out' = port_out \o data
  /\ text_out' = write_to_text_file(text_out, text_file, data, "TX")
  /\ raw_out' = write_to_raw_file(raw_out, raw_file, data)
  /\ stats' = [stats EXCEPT !.bytes_sent = @ + Len(data)]
  /\ logs' = add_log(logs, LogEntry("Sent", data, log_seq + 1, display_settings), max_log_entries)
  /\ log_seq' = log_seq + 1
  /\ ret' = Returned("send_data", "Ok")
  /\ UNCHANGED <<is_connected, shutdown_flag, frame_segmentation_config, max_log_entries,
                 limit_changed, readerVars, fgVars, envVars, connVars, recVars,
                 fg_port_name, fg_config, connects, pre, call, dispVars, lockVars>>

\* mutant: the Sent entry is logged before the connection is checked
SendDataNotConnectedLogging(data) ==
  /\ fg_pc = "idle"
  /\ ~is_connected \/ ~current_port
  /\ logs' = add_log(logs, LogEntry("Sent", data, log_seq + 1, display_settings), max_log_entries)
  /\ log_seq' = log_seq + 1
  /\ ret' = Returned("send_data", "Err")
  /\ UNCHANGED <<mgrVars, max_log_entries, limit_changed, readerVars, fgVars, envVars, connVars,
                 recVars, outVars, fg_port_name, fg_config, connects, pre, call, dispVars, lockVars>>

\* send_data without a connection: Err("No port is currently open") / Err("No port available")
SendDataNotConnected(data) ==
  /\ fg_pc = "idle"
  /\ ~is_connected \/ ~current_port
  /\ ret' = Returned("send_data", "Err")
  /\ UNCHANGED <<mgrVars, logVars, readerVars, fgVars, envVars, connVars, recVars, outVars,
                 fg_port_name, fg_config, connects, pre, call, dispVars, lockVars>>

\* mutant: a failed write closes the connection
SendDataWriteFailsDisconnecting(data, n) ==
  /\ fg_pc = "idle"
  /\ is_connected
  /\ current_port
  /\ n < Len(data)
  /\ Len(port_out) + n <= MaxSentBytes
  /\ port_out' = port_out \o SubSeq(data, 1, n)
  /\ is_connected' = FALSE
  /\ ret' = Returned("send_data", "Err")
  /\ UNCHANGED <<shutdown_flag, stats, frame_segmentation_config, logVars, readerVars, fgVars,
                 envVars, connVars, recVars, text_out, raw_out, fg_port_name, fg_config,
                 connects, pre, call, dispVars, lockVars>>

\* send_data whose port.write_all(&data)? fails after n < len bytes went out
SendDataWriteFails(data, n) ==
  /\ fg_pc = "idle"
  /\ is_connected
  /\ current_port
  /\ n < Len(data)
  /\ Len(port_out) + n <= MaxSentBytes
  /\ port_out' = port_out \o SubSeq(data, 1, n)
  /\ ret' = Returned("send_data", "Err")
  /\ UNCHANGED <<mgrVars, logVars, readerVars, fgVars, envVars, connVars, recVars,
                 text_out, raw_out, fg_port_name, fg_config, connects, pre, call, dispVars, lockVars>>

ClearLogs ==
  /\ fg_pc = "idle"
  /\ logs' = <<>>
  /\ log_seq' = 0
  /\ limit_changed' = FALSE
  /\ UNCHANGED <<mgrVars, max_log_entries, readerVars, fgVars, envVars, sessVars, call, dispVars, lockVars>>

\* set_max_log_entries, first lock section: clamp and store the limit
SetMaxLogEntriesStore(n) ==
  /\ fg_pc = "idle"
  /\ fg_arg' = n
  /\ fg_max_entries' = clamp(n, MIN_LOG_ENTRIES, MAX_LOG_ENTRIES)
  /\ max_log_entries' = clamp(n, MIN_LOG_ENTRIES, MAX_LOG_ENTRIES)
  /\ limit_changed' = (limit_changed \/ max_log_entries' # max_log_entries)
  /\ fg_pc' = "trim"
  /\ UNCHANGED <<mgrVars, logs, log_seq, readerVars, cfg_changes, envVars, sessVars, call, dispVars, lockVars>>

\* set_max_log_entries, second lock section: trim the buffer, then return
SetMaxLogEntriesTrim ==
  /\ fg_pc = "trim"
  /\ logs' = trim_existing_logs(logs, fg_max_entries)
  /\ fg_pc' = "idle"
  /\ UNCHANGED <<mgrVars, max_log_entries, log_seq, limit_changed, readerVars,
                 fg_arg, fg_max_entries, cfg_changes, envVars, sessVars, call, dispVars, lockVars>>

\* what the four display setters share: one field of display_settings is stored under
\* the display_settings lock
StoreDisplaySettings(settings) ==
  /\ fg_pc = "idle"
  /\ cfg_changes < MaxCfgChanges
  /\ display_settings' = settings
  /\ cfg_changes' = cfg_changes + 1
  /\ UNCHANGED <<mgrVars, logVars, readerVars, disp_settings, fg_pc, fg_arg, fg_max_entries,
                 envVars, sessVars, call, lockVars>>

SetDisplayFormat(format) ==
  StoreDisplaySettings([display_settings EXCEPT !.format = format])

SetTextEncoding(encoding) ==
  StoreDisplaySettings([display_settings EXCEPT !.encoding = encoding])

SetSpecialCharConfig(special_char_config) ==
  StoreDisplaySettings([display_settings EXCEPT !.special_char_config = special_char_config])

SetShowTimestamps(show) ==
  StoreDisplaySettings([display_settings EXCEPT !.show_timestamps = show])

\* mutant: the requested timeout is stored as it comes
set_frame_segmentation_config_unclamped(new_config) == new_config

set_frame_segmentation_config(new_config) ==
  [new_config EXCEPT !.timeout_ms = clamp(new_config.timeout_ms, MIN_TIMEOUT_MS, MAX_TIMEOUT_MS)]

SetFrameSegmentationConfig(new_config) ==
  /\ fg_pc = "idle"
  /\ cfg_changes < MaxCfgChanges
  /\ frame_segmentation_config' = set_frame_segmentation_config(new_config)
  /\ cfg_changes' = cfg_changes + 1
  /\ UNCHANGED <<is_connected, shutdown_flag, stats, logVars, readerVars, fg_pc,
                 fg_arg, fg_max_entries, envVars, sessVars, call, dispVars, lockVars>>

\* generate_recording_filename: the port name (or "UNKNOWN") and the extension; the
\* timestamp part is left out
generate_recording_filename(extension) ==
  [port_name |-> IF port_name = NoValue THEN "UNKNOWN" ELSE ValueOf(port_name),
   extension |-> extension]

\* start_text_recording with no text recording active and the file opened
StartTextRecording ==
  /\ fg_pc = "idle"
  /\ ~text_file
  /\ text_file' = TRUE
  /\ text_file_path' = Present(generate_recording_filename("txt"))
  /\ ret' = Returned("start_text_recording", "Ok")
  /\ UNCHANGED <<mgrVars, logVars, readerVars, fgVars, envVars, connVars, raw_file,
                 raw_file_path, outVars, fg_port_name, fg_config, connects, pre, call, dispVars, lockVars>>

\* start_raw_recording with no raw recording active and the file opened
StartRawRecording ==
  /\ fg_pc = "idle"
  /\ ~raw_file
  /\ raw_file' = TRUE
  /\ raw_file_path' = Present(generate_recording_filename("bin"))
  /\ ret' = Returned("start_raw_recording", "Ok")
  /\ UNCHANGED <<mgrVars, logVars, readerVars, fgVars, envVars, connVars, text_file,
                 text_file_path, outVars, fg_port_name, fg_config, connects, pre, call, dispVars, lockVars>>

\* mutant: a second start closes the recording that is active
StartTextRecordingAlreadyActiveClosing ==
  /\ fg_pc = "idle"
  /\ text_file
  /\ text_file' = FALSE
  /\ ret' = Returned("start_text_recording", "AlreadyActive")
  /\ UNCHANGED <<mgrVars, logVars, readerVars, fgVars, envVars, connVars, raw_file,
                 text_file_path, raw_file_path, outVars, fg_port_name, fg_config, connects,
                 pre, call, dispVars, lockVars>>

\* start_text_recording while a text recording is active: Err("Text recording is already
\* active") before a file name is generated
StartTextRecordingAlreadyActive ==
  /\ fg_pc = "idle"
  /\ text_file
  /\ ret' = Returned("start_text_recording", "AlreadyActive")
  /\ UNCHANGED <<mgrVars, logVars, readerVars, fgVars, envVars, connVars, recVars, outVars,
                 fg_port_name, fg_config, connects, pre, call, dispVars, lockVars>>

\* start_raw_recording while a raw recording is active
StartRawRecordingAlreadyActive ==
  /\ fg_pc = "idle"
  /\ raw_file
  /\ ret' = Returned("start_raw_recording", "AlreadyActive")
  /\ UNCHANGED <<mgrVars, logVars, readerVars, fgVars, envVars, connVars, recVars, outVars,
                 fg_port_name, fg_config, connects, pre, call, dispVars, lockVars>>

\* start_text_recording whose create_dir_all or open fails
StartTextRecordingFails ==
  /\ fg_pc = "idle"
  /\ ~text_file
  /\ ret' = Returned("start_text_recording", "Err")
  /\ UNCHANGED <<mgrVars, logVars, readerVars, fgVars, envVars, connVars, recVars, outVars,
                 fg_port_name, fg_config, connects, pre, call, dispVars, lockVars>>

\* start_raw_recording whose create_dir_all or open fails
StartRawRecordingFails ==
  /\ fg_pc = "idle"
  /\ ~raw_file
  /\ ret' = Returned("start_raw_recording", "Err")
  /\ UNCHANGED <<mgrVars, logVars, readerVars, fgVars, envVars, connVars, recVars, outVars,
                 fg_port_name, fg_config, connects, pre, call, dispVars, lockVars>>

\* stop_text_recording: the handle is taken (flushing a File cannot fail), then the path
StopTextRecording ==
  /\ fg_pc = "idle"
  /\ text_file' = FALSE
  /\ text_file_path' = NoValue
  /\ ret' = Returned("stop_text_recording", "Ok")
  /\ UNCHANGED <<mgrVars, logVars, readerVars, fgVars, envVars, connVars, raw_file,
                 raw_file_path, outVars, fg_port_name, fg_config, connects, pre, call, dispVars, lockVars>>

\* stop_raw_recording
StopRawRecording ==
  /\ fg_pc = "idle"
  /\ raw_file' = FALSE
  /\ raw_file_path' = NoValue
  /\ ret' = Returned("stop_raw_recording", "Ok")
  /\ UNCHANGED <<mgrVars, logVars, readerVars, fgVars, envVars, connVars, text_file,
                 text_file_path, outVars, fg_port_name, fg_config, connects, pre, call, dispVars, lockVars>>

\* stop_text_recording whose file.flush() fails: the handle has been taken, the `?`
\* returns before the path is
StopTextRecordingFlushFails ==
  /\ fg_pc = "idle"
  /\ text_file
  /\ text_file' = FALSE
  /\ ret' = Returned("stop_text_recording", "Err")
  /\ UNCHANGED <<mgrVars, logVars, readerVars, fgVars, envVars, connVars, raw_file,
                 text_file_path, raw_file_path, outVars, fg_port_name, fg_config, connects,
                 pre, call, dispVars, lockVars>>

\* stop_raw_recording whose file.flush() fails
StopRawRecordingFlushFails ==
  /\ fg_pc = "idle"
  /\ raw_file
  /\ raw_file' = FALSE
  /\ ret' = Returned("stop_raw_recording", "Err")
  /\ UNCHANGED <<mgrVars, logVars, readerVars, fgVars, envVars, connVars, text_file,
                 text_file_path, raw_file_path, outVars, fg_port_name, fg_config, connects,
                 pre, call, dispVars, lockVars>>

\* stop_all_recordings where the flush of the text file succeeds or not, and that of the
\* raw file: let _ = self.stop_text_recording(); let _ = self.stop_raw_recording(). A
\* channel without a file has nothing to flush.
stop_all_recordings_flushing(text_flushed, raw_flushed) ==
  /\ text_file' = FALSE
  /\ text_file_path' = IF text_file /\ ~text_flushed THEN text_file_path ELSE NoValue
  /\ raw_file' = FALSE
  /\ raw_file_path' = IF raw_file /\ ~raw_flushed THEN raw_file_path ELSE NoValue

\* stop_all_recordings with both flushes succeeding: stop_text_recording and
\* stop_raw_recording take the handles and the paths
stop_all_recordings ==
  /\ text_file' = FALSE
  /\ text_file_path' = NoValue
  /\ raw_file' = FALSE
  /\ raw_file_path' = NoValue

\* disconnect up to its 200 ms sleep: the flag, the recordings, the port handle
DisconnectFirstHalf ==
  /\ shutdown_flag' = TRUE
  /\ stop_all_recordings
  /\ current_port' = FALSE
  /\ UNCHANGED <<is_connected, stats, frame_segmentation_config, config, port_name, dispVars, lockVars>>

\* mutant: the statistics survive the disconnect
DisconnectSecondHalfKeepingStats ==
  /\ is_connected' = FALSE
  /\ port_name' = NoValue
  /\ config' = NoValue
  /\ UNCHANGED <<stats, shutdown_flag, frame_segmentation_config, current_port, recVars, dispVars, lockVars>>

\* disconnect after the sleep: the connection fields and the statistics
DisconnectSecondHalf ==
  /\ is_connected' = FALSE
  /\ port_name' = NoValue
  /\ config' = NoValue
  /\ stats' = DefaultSerialStats
  /\ UNCHANGED <<shutdown_flag, frame_segmentation_config, current_port, recVars, dispVars, lockVars>>

\* mutant: the shutdown flag is set without looking at is_connected
DisconnectUnguarded ==
  /\ fg_pc = "idle"
  /\ ~is_connected
  /\ shutdown_flag' = TRUE
  /\ ret' = Returned("disconnect", "Ok")
  /\ UNCHANGED <<is_connected, stats, frame_segmentation_config, logVars, readerVars, fgVars,
                 envVars, connVars, recVars, outVars, fg_port_name, fg_config, connects, pre,
                 call, dispVars, lockVars>>

\* disconnect on a manager that is not connected
DisconnectNotConnected ==
  /\ fg_pc = "idle"
  /\ ~is_connected
  /\ ret' = Returned("disconnect", "Ok")
  /\ UNCHANGED <<mgrVars, logVars, readerVars, fgVars, envVars, connVars, recVars, outVars,
                 fg_port_name, fg_config, connects, pre, call, dispVars, lockVars>>

DisconnectBegin ==
  /\ fg_pc = "idle"
  /\ is_connected
  /\ DisconnectFirstHalf
  /\ fg_pc' = "disconnect_sleep"
  /\ UNCHANGED <<logVars, readerVars, fg_arg, fg_max_entries, cfg_changes, envVars, outVars,
                 callVars, call, dispVars, lockVars>>

\* disconnect on a connected manager with a recording whose flush fails
DisconnectBeginFlushFails ==
  /\ fg_pc = "idle"
  /\ is_connected
  /\ shutdown_flag' = TRUE
  /\ \E text_flushed, raw_flushed \in BOOLEAN :
       /\ (text_file /\ ~text_flushed) \/ (raw_file /\ ~raw_flushed)
       /\ stop_all_recordings_flushing(text_flushed, raw_flushed)
  /\ current_port' = FALSE
  /\ fg_pc' = "disconnect_sleep"
  /\ UNCHANGED <<is_connected, stats, frame_segmentation_config, config, port_name, logVars,
                 readerVars, fg_arg, fg_max_entries, cfg_changes, envVars, outVars, callVars,
                 call, dispVars, lockVars>>

DisconnectFinish ==
  /\ fg_pc = "disconnect_sleep"
  /\ DisconnectSecondHalf
  /\ fg_pc' = "idle"
  /\ ret' = Returned("disconnect", "Ok")
  /\ UNCHANGED <<logVars, readerVars, fg_arg, fg_max_entries, cfg_changes, envVars, outVars,
                 fg_port_name, fg_config, connects, pre, call, dispVars, lockVars>>

\* connect is called: if self.is_connected { self.disconnect()?; } up to the sleep
ConnectCall(name, new_config) ==
  /\ fg_pc = "idle"
  /\ connects < MaxConnects
  /\ connects' = connects + 1
  /\ fg_port_name' = Present(name)
  /\ fg_config' = Present(new_config)
  /\ pre' = Present(ConnectionView)
  /\ IF is_connected
     THEN DisconnectFirstHalf /\ fg_pc' = "connect_disconnect_sleep"
     ELSE fg_pc' = "connect_open" /\ UNCHANGED <<mgrVars, connVars, recVars, dispVars, lockVars>>
  /\ UNCHANGED <<logVars, readerVars, fg_arg, fg_max_entries, cfg_changes, envVars, outVars,
                 ret, call, dispVars, lockVars>>

\* the rest of the disconnect inside connect
ConnectDisconnectFinish ==
  /\ fg_pc = "connect_disconnect_sleep"
  /\ DisconnectSecondHalf
  /\ fg_pc' = "connect_open"
  /\ UNCHANGED <<logVars, readerVars, fg_arg, fg_max_entries, cfg_changes, envVars, outVars,
                 callVars, call, dispVars, lockVars>>

\* builder.open()? fails
ConnectOpenFails ==
  /\ fg_pc = "connect_open"
  /\ fg_pc' = "idle"
  /\ pre' = NoValue
  /\ ret' = Returned("connect", "Err")
  /\ UNCHANGED <<mgrVars, logVars, readerVars, fg_arg, fg_max_entries, cfg_changes, envVars,
                 connVars, recVars, outVars, fg_port_name, fg_config, connects, call, dispVars, lockVars>>

\* the port opens, the flag is reset, port.try_clone()? fails
ConnectCloneFails ==
  /\ fg_pc = "connect_open"
  /\ shutdown_flag' = FALSE
  /\ fg_pc' = "idle"
  /\ pre' = NoValue
  /\ ret' = Returned("connect", "Err")
  /\ UNCHANGED <<is_connected, stats, frame_segmentation_config, logVars, readerVars, fg_arg,
                 fg_max_entries, cfg_changes, envVars, connVars, recVars, outVars,
                 fg_port_name, fg_config, connects, call, dispVars, lockVars>>

\* the port opens, the flag is reset and the reader thread is spawned with fresh locals.
\* connect does not wait for the thread of the previous connection; the reader variables
\* follow the thread spawned last.
ConnectSpawn ==
  /\ fg_pc = "connect_open"
  /\ shutdown_flag' = FALSE
  /\ reader_pc' = "loop"
  /\ accumulated_data' = <<>>
  /\ elapsed' = 0
  /\ data_len' = 0
  /\ acc_late' = <<>>
  /\ emitted' = <<>>
  /\ reads' = <<>>
  /\ fg_pc' = "connect_finish"
  /\ UNCHANGED <<is_connected, stats, frame_segmentation_config, logVars, seg_config, mark,
                 acc_overflow, fg_arg, fg_max_entries, cfg_changes, wire, flooding, sessVars,
                 call, dispVars, lockVars>>

\* mutant: connection_time is not recorded
ConnectFinishWithoutTime ==
  /\ fg_pc = "connect_finish"
  /\ current_port' = TRUE
  /\ config' = fg_config
  /\ is_connected' = TRUE
  /\ port_name' = fg_port_name
  /\ fg_pc' = "idle"
  /\ pre' = NoValue
  /\ ret' = Returned("connect", "Ok")
  /\ UNCHANGED <<shutdown_flag, stats, frame_segmentation_config, logVars, readerVars, fg_arg,
                 fg_max_entries, cfg_changes, envVars, recVars, outVars, fg_port_name,
                 fg_config, connects, call, dispVars, lockVars>>

\* after the spawn: the connection fields and connection_time
ConnectFinish ==
  /\ fg_pc = "connect_finish"
  /\ current_port' = TRUE
  /\ config' = fg_config
  /\ is_connected' = TRUE
  /\ port_name' = fg_port_name
  /\ stats' = [stats EXCEPT !.connection_time = Present("now")]
  /\ fg_pc' = "idle"
  /\ pre' = NoValue
  /\ ret' = Returned("connect", "Ok")
  /\ UNCHANGED <<shutdown_flag, frame_segmentation_config, logVars, readerVars, fg_arg,
                 fg_max_entries, cfg_changes, envVars, recVars, outVars, fg_port_name,
                 fg_config, connects, call, dispVars, lockVars>>

\* ------------------------------------------------------------------------
\* Pure functions applied to bounded inputs
\* ------------------------------------------------------------------------
NewlineInputs == SeqsUpTo({CR, LF, 65}, MaxLen)

CallFindAnyNewline ==
  /\ call = NoCall
  /\ \E data \in NewlineInputs :
       call' = [fn |-> "find_any_newline", data |-> data, out |-> find_any_newline(data)]
  /\ UNCHANGED <<mgrVars, logVars, readerVars, fgVars, envVars, sessVars, dispVars, lockVars>>

\* ------------------------------------------------------------------------
\* The send command's hex input (main.rs); a string is the sequence of its ASCII codes
\* ------------------------------------------------------------------------
\* '0'..'9', 'A'..'F', 'a'..'f'
HexDigitChars == (48..57) \cup (65..70) \cup (97..102)

\* char::to_digit(16)
to_digit(c) == IF c \in 48..57 THEN c - 48 ELSE IF c \in 65..70 THEN c - 55 ELSE c - 87

ParseErr == [ok |-> FALSE, value |-> 0]
ParseOk(value) == [ok |-> TRUE, value |-> value]

\* u8::from_str_radix(src, 16) on at most two characters: an empty string and a lone sign
\* are errors, one leading '+' (43) is skipped, a '-' (45) is not a digit of an unsigned
\* type
from_str_radix(src) ==
  IF src = <<>> THEN ParseErr
  ELSE IF Len(src) = 1 /\ Head(src) \in {43, 45} THEN ParseErr
  ELSE LET digits == IF Head(src) = 43 THEN Tail(src) ELSE src
       IN IF \E i \in 1..Len(digits) : digits[i] \notin HexDigitChars THEN ParseErr
          ELSE IF Len(digits) = 1 THEN ParseOk(to_digit(digits[1]))
          ELSE ParseOk(16 * to_digit(digits[1]) + to_digit(digits[2]))

\* data.replace(" ", "").replace("\n", "")
cleaned_hex(data) == SelectSeq(data, LAMBDA c : c \notin {32, LF})

\* the DataFormat::Hex arm of the send command: Err, or Ok with the bytes to transmit
parse_hex(data) ==
  LET cleaned == cleaned_hex(data)
      pair(k) == from_str_radix(SubSeq(cleaned, 2 * k - 1, 2 * k))
  IN IF Len(cleaned) % 2 # 0 THEN [ok |-> FALSE, bytes |-> <<>>]
     ELSE IF \E k \in 1..(Len(cleaned) \div 2) : ~pair(k).ok THEN [ok |-> FALSE, bytes |-> <<>>]
     ELSE [ok |-> TRUE, bytes |-> [k \in 1..(Len(cleaned) \div 2) |-> pair(k).value]]

\* '4', '8', 'F', 'a', ' ', '\n', '+', '-', 'g'
HexChars == {52, 56, 70, 97, 32, LF, 43, 45, 103}

\* "48656c6c6f" and "48 65 F"
HexHello == <<52, 56, 54, 53, 54, 99, 54, 99, 54, 102>>
HexOddAfterStripping == <<52, 56, 32, 54, 53, 32, 70>>

HexInputs == SeqsUpTo(HexChars, MaxHexLen) \cup {HexHello, HexOddAfterStripping}

CallParseHex ==
  /\ call = NoCall
  /\ \E data \in HexInputs :
       call' = [fn |-> "parse_hex", data |-> data, out |-> parse_hex(data)]
  /\ UNCHANGED <<mgrVars, logVars, readerVars, fgVars, envVars, sessVars, dispVars, lockVars>>

\* ------------------------------------------------------------------------
\* Inputs of the display formatter
\* ------------------------------------------------------------------------
\* 'A', LF, space, a byte that continues a UTF-8 sequence and leads a GBK pair, two bytes
\* that lead both, and a byte neither encoding has
FormatBytes == {65, LF, 32, 144, 208, 214, 255}

FormatPayloads == SeqsUpTo(FormatBytes, MaxFormatLen)

SpecialCharInputs ==
  { DefaultSpecialCharConfig,
    SpecialCharConfig(FALSE, TRUE, TRUE, TRUE, TRUE, TRUE, TRUE),
    SpecialCharConfig(TRUE, FALSE, FALSE, FALSE, FALSE, FALSE, TRUE),
    SpecialCharConfig(TRUE, TRUE, FALSE, FALSE, FALSE, FALSE, FALSE) }

DisplaySettingsInputs ==
  { DisplaySettings(format, encoding, special_chars, TRUE) :
      format \in {"Hex", "Txt"}, encoding \in {"Utf8", "Gbk"},
      special_chars \in SpecialCharInputs }

CallFormatDataForDisplay ==
  /\ call = NoCall
  /\ \E data \in FormatPayloads, settings \in DisplaySettingsInputs :
       call' = [fn |-> "format_data_for_display", data |-> data, settings |-> settings,
                out |-> format_data_for_display(data, settings)]
  /\ UNCHANGED <<mgrVars, logVars, readerVars, fgVars, envVars, sessVars, dispVars, lockVars>>

\* ------------------------------------------------------------------------
\* The version check of the updater (updater.rs); a string is the sequence of its ASCII
\* codes, and a u32 is kept as its decimal digits without leading zeros, so that values
\* up to and beyond u32::MAX are compared exactly
\* ------------------------------------------------------------------------
\* 'v' and '.'
CharV == 118
CharDot == 46

\* '0'..'9'
DecimalDigitChars == 48..57

\* u32::MAX, 4294967295, as its digits
U32_MAX == <<52, 50, 57, 52, 57, 54, 55, 50, 57, 53>>

\* version.trim_start_matches('v'): every leading 'v' is removed
RECURSIVE trim_start_matches(_, _)
trim_start_matches(s, c) ==
  IF s # <<>> /\ Head(s) = c THEN trim_start_matches(Tail(s), c) ELSE s

\* v.split('.').collect(): the pieces between the separators, an empty string has one
\* empty piece; piece is the piece being read
RECURSIVE split(_, _, _)
split(s, sep, piece) ==
  IF s = <<>> THEN <<piece>>
  ELSE IF Head(s) = sep THEN <<piece>> \o split(Tail(s), sep, <<>>)
  ELSE split(Tail(s), sep, Append(piece, Head(s)))

\* the digits of a number without its leading zeros (zero has none)
RECURSIVE strip_zeros(_)
strip_zeros(digits) ==
  IF digits # <<>> /\ Head(digits) = 48 THEN strip_zeros(Tail(digits)) ELSE digits

\* the order of two digit strings of the same length
RECURSIVE cmp_same_len(_, _)
cmp_same_len(a, b) ==
  IF a = <<>> THEN "Equal"
  ELSE IF Head(a) < Head(b) THEN "Less"
  ELSE IF Head(a) > Head(b) THEN "Greater"
  ELSE cmp_same_len(Tail(a), Tail(b))

\* u32::cmp on two values kept as digits without leading zeros
cmp_u32(a, b) ==
  IF Len(a) < Len(b) THEN "Less"
  ELSE IF Len(a) > Len(b) THEN "Greater"
  ELSE cmp_same_len(a, b)

\* str::parse::<u32>(): an empty string and a lone sign are errors, one leading '+' (43)
\* is skipped, every other character must be a decimal digit, and a value above u32::MAX
\* is an error
parse_u32(src) ==
  IF src = <<>> THEN [ok |-> FALSE, value |-> <<>>]
  ELSE IF Len(src) = 1 /\ Head(src) \in {43, 45} THEN [ok |-> FALSE, value |-> <<>>]
  ELSE LET digits == IF Head(src) = 43 THEN Tail(src) ELSE src
           value == strip_zeros(digits)
       IN IF \E i \in 1..Len(digits) : digits[i] \notin DecimalDigitChars
          THEN [ok |-> FALSE, value |-> <<>>]
          ELSE IF cmp_u32(value, U32_MAX) = "Greater" THEN [ok |-> FALSE, value |-> <<>>]
          ELSE [ok |-> TRUE, value |-> value]

\* Option<(u32, u32, u32)> and Option<Ordering>
NoVersion == [some |-> FALSE, triple |-> <<>>]
NoOrdering == [some |-> FALSE, ordering |-> "Equal"]

parse_version(version) ==
  LET v == trim_start_matches(version, CharV)
      parts == split(v, CharDot, <<>>)
  IN IF Len(parts) # 3 THEN NoVersion
     ELSE LET major == parse_u32(parts[1])
              minor == parse_u32(parts[2])
              patch == parse_u32(parts[3])
          IN IF ~major.ok \/ ~minor.ok \/ ~patch.ok THEN NoVersion
             ELSE [some |-> TRUE, triple |-> <<major.value, minor.value, patch.value>>]

\* (u32, u32, u32)::cmp: the first field that differs decides
cmp_triple(a, b) ==
  IF cmp_u32(a[1], b[1]) # "Equal" THEN cmp_u32(a[1], b[1])
  ELSE IF cmp_u32(a[2], b[2]) # "Equal" THEN cmp_u32(a[2], b[2])
  ELSE cmp_u32(a[3], b[3])

compare_versions(version_a, version_b) ==
  LET a == parse_version(version_a)
      b == parse_version(version_b)
  IN IF ~a.some \/ ~b.some THEN NoOrdering
     ELSE [some |-> TRUE, ordering |-> cmp_triple(a.triple, b.triple)]

\* check_for_updates once the latest release has been fetched: tag_name is the tag of
\* the release
check_for_updates(tag_name, current_version) ==
  LET latest_version == trim_start_matches(tag_name, CharV)
      current == trim_start_matches(current_version, CharV)
      order == compare_versions(latest_version, current)
  IN [has_update |-> order.some /\ order.ordering = "Greater",
      current_version |-> current, latest_version |-> latest_version]

\* the fields of the versions tried: "1", "9", "10", "+1" and the empty string
VersionFields == {<<49>>, <<57>>, <<49, 48>>, <<43, 49>>, <<>>}

\* the fields joined by '.'
RECURSIVE join_fields(_)
join_fields(fields) ==
  IF Len(fields) = 1 THEN fields[1]
  ELSE fields[1] \o <<CharDot>> \o join_fields(Tail(fields))

\* "1.10.5", "1.9.9", "2.0.0", "v1.9.9", "invalid", "4294967295.0.0", "4294967296.0.0"
Version_1_10_5 == <<49, 46, 49, 48, 46, 53>>
Version_1_9_9 == <<49, 46, 57, 46, 57>>
Version_2_0_0 == <<50, 46, 48, 46, 48>>
Version_v1_9_9 == <<CharV>> \o Version_1_9_9
VersionInvalid == <<105, 110, 118, 97, 108, 105, 100>>
VersionU32Max == U32_MAX \o <<46, 48, 46, 48>>
VersionAboveU32Max == <<52, 50, 57, 52, 57, 54, 55, 50, 57, 54, 46, 48, 46, 48>>

\* no 'v', one 'v' or two before one to MaxVersionFields fields, and the versions above
VersionInputs ==
  { prefix \o join_fields(fields) :
      prefix \in {<<>>, <<CharV>>, <<CharV, CharV>>},
      fields \in UNION { [1..n -> VersionFields] : n \in 1..MaxVersionFields } }
  \cup {Version_1_10_5, Version_1_9_9, Version_2_0_0, Version_v1_9_9, VersionInvalid,
        VersionU32Max, VersionAboveU32Max}

\* the versions they are compared with
VersionOthers ==
  {Version_1_10_5, Version_1_9_9, Version_2_0_0, Version_v1_9_9, VersionInvalid,
   VersionU32Max, <<49, 46, 49>>, <<CharV, 49, 46, 49, 46, 49>>}

CallCompareVersions ==
  /\ call = NoCall
  /\ \E version_a \in VersionInputs, version_b \in VersionOthers :
       \/ call' = [fn |-> "compare_versions", data |-> <<version_a, version_b>>,
                   out |-> compare_versions(version_a, version_b)]
       \/ call' = [fn |-> "compare_versions", data |-> <<version_b, version_a>>,
                   out |-> compare_versions(version_b, version_a)]
  /\ UNCHANGED <<mgrVars, logVars, readerVars, fgVars, envVars, sessVars, dispVars, lockVars>>

CallCheckForUpdates ==
  /\ call = NoCall
  /\ \E tag_name \in VersionInputs, current_version \in VersionOthers :
       call' = [fn |-> "check_for_updates", data |-> <<tag_name, current_version>>,
                out |-> check_for_updates(tag_name, current_version)]
  /\ UNCHANGED <<mgrVars, logVars, readerVars, fgVars, envVars, sessVars, dispVars, lockVars>>

\* ------------------------------------------------------------------------
\* The mutexes of the shared fields and the lock sections of the code. A thread's code
\* between two positions is the sequence of its lock() calls and guard drops.
\* ------------------------------------------------------------------------
\* m.lock() and the drop of the guard it returned
Lock(m) == [op |-> "lock", mutex |-> m]
Drop(m) == [op |-> "drop", mutex |-> m]

\* a guard that lives for one statement or one if-let block with no lock() inside:
\* *m.lock(), m.lock().map(|guard| guard.clone()), if let Ok(guard) = m.lock() { .. }
locked(m) == <<Lock(m), Drop(m)>>

\* mutant: the guard of frame_segmentation_config is bound to a variable and lives on
reader_snapshot_keeping_guard ==
  <<Lock("frame_segmentation_config")>> \o locked("display_settings")

\* the reader's copies of the segmentation config and the display settings
reader_snapshot == locked("frame_segmentation_config") \o locked("display_settings")

\* if let Ok(mut guard) = text_file.lock() { if let Some(ref mut file) = *guard {
\* let tz_offset = *timezone_offset.lock()...; writeln!(..) } }: handle tells whether the
\* file is there
text_line_locks(handle) ==
  IF handle
  THEN <<Lock("text_file")>> \o locked("timezone_offset_minutes") \o <<Drop("text_file")>>
  ELSE locked("text_file")

\* if let Ok(mut logs) = logs.lock() { push_back; *max_log_entries.lock(); pop_front }
push_log_locks == <<Lock("logs")>> \o locked("max_log_entries") \o <<Drop("logs")>>

\* one frame of the reader: the text line, the timezone offset for the entry, the push,
\* the statistics
reader_emit_locks(handle) ==
  text_line_locks(handle) \o locked("timezone_offset_minutes") \o push_log_locks
    \o locked("stats")

send_data_locks(handle) ==
  text_line_locks(handle) \o locked("raw_file") \o locked("stats")
    \o locked("display_settings") \o locked("timezone_offset_minutes") \o push_log_locks

\* mutant: the guard of the limit is still alive when the logs are locked
set_max_log_entries_locks_nested ==
  <<Lock("max_log_entries")>> \o locked("logs") \o <<Drop("max_log_entries")>>

set_max_log_entries_locks == locked("max_log_entries") \o locked("logs")

\* start of a recording whose handle is file and whose path is path: the check of the
\* handle; unless it is there, generate_recording_filename (the log directory, the
\* timezone offset) and the two stores
start_recording_locks(file, path, handle) ==
  IF handle THEN locked(file)
  ELSE locked(file) \o locked("log_directory") \o locked("timezone_offset_minutes")
         \o locked(file) \o locked(path)

stop_recording_locks(file, path) == locked(file) \o locked(path)

stop_all_recordings_locks ==
  stop_recording_locks("text_file", "text_file_path")
    \o stop_recording_locks("raw_file", "raw_file_path")

disconnect_locks == stop_all_recordings_locks \o locked("stats")

get_recording_status_locks ==
  locked("text_file") \o locked("raw_file") \o locked("text_file_path")
    \o locked("raw_file_path")

\* the lock sections of the foreground operations that take locks, by name
ForegroundLocks(handle) ==
  [send_data |-> send_data_locks(handle),
   set_max_log_entries |-> set_max_log_entries_locks,
   start_text_recording |-> start_recording_locks("text_file", "text_file_path", handle),
   stop_text_recording |-> stop_recording_locks("text_file", "text_file_path"),
   start_raw_recording |-> start_recording_locks("raw_file", "raw_file_path", handle),
   stop_raw_recording |-> stop_recording_locks("raw_file", "raw_file_path"),
   set_timezone_offset |-> locked("timezone_offset_minutes"),
   set_frame_segmentation_config |-> locked("frame_segmentation_config"),
   get_logs |-> locked("logs"),
   clear_logs |-> locked("logs"),
   get_status |-> locked("stats"),
   get_recording_status |-> get_recording_status_locks]

Held(thread) == {m \in Mutexes : lock_owner[m] = thread}

\* the next lock or drop of a thread: lock() blocks while another guard of the mutex is
\* alive
LockStep(thread, todo) ==
  /\ todo # <<>>
  /\ IF Head(todo).op = "lock"
     THEN /\ lock_owner[Head(todo).mutex] = "free"
          /\ lock_owner' = [lock_owner EXCEPT ![Head(todo).mutex] = thread]
     ELSE lock_owner' = [lock_owner EXCEPT ![Head(todo).mutex] = "free"]

ReaderLockStep ==
  /\ LockStep("reader", reader_todo)
  /\ reader_todo' = Tail(reader_todo)
  /\ UNCHANGED <<mgrVars, logVars, readerVars, fgVars, envVars, sessVars, call, dispVars,
                 fg_todo>>

\* the caller's next lock or drop; after the last one the call returns
ForegroundLockStep ==
  /\ LockStep("caller", fg_todo)
  /\ fg_todo' = Tail(fg_todo)
  /\ fg_pc' = IF Tail(fg_todo) = <<>> THEN "idle" ELSE fg_pc
  /\ UNCHANGED <<mgrVars, logVars, readerVars, fg_arg, fg_max_entries, cfg_changes, envVars,
                 sessVars, call, dispVars, reader_todo>>

\* top of the loop: the shutdown check, then the two snapshots, each under its lock
ReaderBeginLocks ==
  /\ reader_pc = "loop"
  /\ reader_todo = <<>>
  /\ IF shutdown_flag
     THEN reader_pc' = "exited" /\ UNCHANGED reader_todo
     ELSE reader_pc' = "read" /\ reader_todo' = reader_snapshot
  /\ UNCHANGED <<mgrVars, logVars, seg_config, accumulated_data, elapsed, data_len, acc_late,
                 emitted, mark, acc_overflow, fgVars, envVars, sessVars, call, dispVars,
                 lock_owner, fg_todo>>

\* read_port.read(&mut buffer) returns: data (the raw recording write follows, then the
\* scan), nothing with no flush due, nothing with the timeout flush due (one frame is
\* emitted), or an error that ends the thread
ReaderReadLocks ==
  /\ reader_pc = "read"
  /\ reader_todo = <<>>
  /\ \/ reader_pc' = "scan" /\ reader_todo' = locked("raw_file")
     \/ reader_pc' = "loop" /\ reader_todo' = <<>>
     \/ \E handle \in BOOLEAN : reader_pc' = "loop" /\ reader_todo' = reader_emit_locks(handle)
     \/ reader_pc' = "exited" /\ reader_todo' = <<>>
  /\ UNCHANGED <<mgrVars, logVars, seg_config, accumulated_data, elapsed, data_len, acc_late,
                 emitted, mark, acc_overflow, fgVars, envVars, sessVars, call, dispVars,
                 lock_owner, fg_todo>>

\* find_any_newline / find_delimiter on the accumulation buffer: a match (one frame is
\* emitted, then the buffer is scanned again) or none
ReaderScanLocks ==
  /\ reader_pc = "scan"
  /\ reader_todo = <<>>
  /\ \/ \E handle \in BOOLEAN : reader_pc' = "scan" /\ reader_todo' = reader_emit_locks(handle)
     \/ reader_pc' = "loop" /\ reader_todo' = <<>>
  /\ UNCHANGED <<mgrVars, logVars, seg_config, accumulated_data, elapsed, data_len, acc_late,
                 emitted, mark, acc_overflow, fgVars, envVars, sessVars, call, dispVars,
                 lock_owner, fg_todo>>

\* a foreground operation is called; whether a recording file is open is either way
ForegroundCallLocks(operation) ==
  /\ fg_pc = "idle"
  /\ fg_todo = <<>>
  /\ fg_pc' = operation
  /\ \E handle \in BOOLEAN : fg_todo' = ForegroundLocks(handle)[operation]
  /\ UNCHANGED <<mgrVars, logVars, readerVars, fg_arg, fg_max_entries, cfg_changes, envVars,
                 sessVars, call, dispVars, lock_owner, reader_todo>>

\* disconnect(): the shutdown flag is stored first
DisconnectLocks ==
  /\ fg_pc = "idle"
  /\ fg_todo = <<>>
  /\ ~shutdown_flag
  /\ shutdown_flag' = TRUE
  /\ fg_pc' = "disconnect"
  /\ fg_todo' = disconnect_locks
  /\ UNCHANGED <<is_connected, stats, frame_segmentation_config, logVars, readerVars, fg_arg,
                 fg_max_entries, cfg_changes, envVars, sessVars, call, dispVars, lock_owner,
                 reader_todo>>

\* ------------------------------------------------------------------------
\* Specifications
\* ------------------------------------------------------------------------
ReadDelays == {0, MidReadDelayMs}

ReaderNext ==
  \/ ReaderBegin
  \/ \E d \in ReadDelays : ReaderReadData(d, 0)
  \/ ReaderEmitAnyNewlineFrame
  \/ ReaderEmitDelimiterFrame
  \/ ReaderCountDelimiterFrame
  \/ ReaderScanDone
  \/ ReaderReadZero
  \/ ReaderReadTimedOut
  \/ ReaderReadError
  \/ ReaderFlushOk0
  \/ ReaderFlushTimedOut
  \/ ReaderCountTimeoutFrame

\* --- pure functions
InitPure ==
  InitWith({<<>>}, {DefaultFrameSegmentationConfig}, {<<DEFAULT_MAX_LOG_ENTRIES, 0>>}, {FALSE})

NextPure ==
  \/ CallFindAnyNewline
  \/ CallParseHex
  \/ CallFormatDataForDisplay
  \/ CallCompareVersions
  \/ CallCheckForUpdates

SpecPure == InitPure /\ [][NextPure]_vars

\* --- the lock sections of the reader thread and of one foreground caller (the
\* commands reach the manager through one Mutex<SerialManager>, so one call runs at a time)
LockedOperations == DOMAIN ForegroundLocks(TRUE)

InitLock ==
  InitWith({<<>>}, {DefaultFrameSegmentationConfig}, {<<DEFAULT_MAX_LOG_ENTRIES, 0>>}, {FALSE})

NextLock ==
  \/ ReaderBeginLocks
  \/ ReaderReadLocks
  \/ ReaderScanLocks
  \/ ReaderLockStep
  \/ \E operation \in LockedOperations : ForegroundCallLocks(operation)
  \/ DisconnectLocks
  \/ ForegroundLockStep

SpecLock == InitLock /\ [][NextLock]_vars

\* --- start and stop of the recordings and disconnect, with the failures the calls can
\* return: a recording already active, a file that cannot be opened, a flush that fails
InitRecErr ==
  InitWith({<<>>}, {DefaultFrameSegmentationConfig}, {<<DEFAULT_MAX_LOG_ENTRIES, 0>>}, {FALSE})

NextRecErr ==
  \/ StartTextRecording
  \/ StartTextRecordingAlreadyActive
  \/ StartTextRecordingFails
  \/ StopTextRecording
  \/ StopTextRecordingFlushFails
  \/ StartRawRecording
  \/ StartRawRecordingAlreadyActive
  \/ StartRawRecordingFails
  \/ StopRawRecording
  \/ StopRawRecordingFlushFails
  \/ DisconnectBegin
  \/ DisconnectBeginFlushFails
  \/ DisconnectFinish
  \/ DisconnectNotConnected

SpecRecErr == InitRecErr /\ [][NextRecErr]_vars

\* --- the log buffer under foreground calls and reader insertions
LogScripts == {<< <<65, LF, 65>> >>}

LogConfigs ==
  { FrameSegmentationConfig("Combined", 10, AnyNewline),
    FrameSegmentationConfig("Combined", 10, DelimLF),
    FrameSegmentationConfig("Timeout", 10, AnyNewline) }

\* <<limit, entries already buffered>>
LogPrefills == {<<DEFAULT_MAX_LOG_ENTRIES, 0>>, <<DEFAULT_MAX_LOG_ENTRIES, 500>>, <<MIN_LOG_ENTRIES, 99>>}

LogLimitInputs == {50, 500, 20000}

InitLog == InitWith(LogScripts, LogConfigs, LogPrefills, {FALSE})

NextLog ==
  \/ ReaderNext
  \/ SendData(<<65>>)
  \/ ClearLogs
  \/ \E n \in LogLimitInputs : SetMaxLogEntriesStore(n)
  \/ SetMaxLogEntriesTrim

SpecLog == InitLog /\ [][NextLog]_vars

\* ------------------------------------------------------------------------
\* Properties
\* ------------------------------------------------------------------------
\* C1: with the limit L unchanged since the last clear, after N pushes (Sent by send_data,
\* Received by the reader) the buffer has length min(N, L) and holds exactly the pushes
\* N - min(N, L) + 1 .. N, in arrival order.
C1_MostRecentRetained ==
  ~limit_changed =>
    /\ Len(logs) = Min(log_seq, max_log_entries)
    /\ \A i \in 1..Len(logs) : logs[i].arrival = log_seq - Len(logs) + i

\* C1 witness: N = 102 pushes under L = 100, the last a Sent entry after a Received one
C1_Witness ==
  /\ ~limit_changed
  /\ max_log_entries = MIN_LOG_ENTRIES
  /\ log_seq = 102
  /\ Len(logs) = 100
  /\ logs[100].direction = "Sent"
  /\ \E i \in 1..99 : logs[i].arrival > 99 /\ logs[i].direction = "Received"

\* C2 as stated: in every reachable state the buffer is no longer than the current limit.
C2_LengthWithinLimit == Len(logs) <= max_log_entries

\* C2 amended: the buffer is no longer than the current limit in every state in which
\* no set_max_log_entries call sits between its limit store and its trim.
C2_LengthWithinLimitOutsideSetMax == fg_pc # "trim" => Len(logs) <= max_log_entries

\* C2 witness: the limit was lowered to 100 over 500 buffered entries while the reader
\* was inserting (it is in the middle of its scan, one frame pushed)
C2_Witness ==
  /\ fg_pc = "idle"
  /\ reader_pc = "scan"
  /\ max_log_entries = MIN_LOG_ENTRIES
  /\ log_seq = 501
  /\ Len(logs) = 100
  /\ logs[100].direction = "Received"

\* C3: set_max_log_entries(n) stores clamp(n, 100, 10000), and its trim step, the last
\* before it returns, leaves exactly the min(len, limit) most recent entries in order;
\* the stored limit is always within [100, 10000].
C3_SetMaxLogEntries ==
  /\ [](max_log_entries >= 100 /\ max_log_entries <= 10000)
  /\ [](fg_pc = "trim" =>
          max_log_entries = (IF fg_arg < 100 THEN 100 ELSE IF fg_arg > 10000 THEN 10000 ELSE fg_arg))
  /\ [][(fg_pc = "trim" /\ fg_pc' = "idle") =>
          /\ max_log_entries' = max_log_entries
          /\ Len(logs') <= max_log_entries'
          /\ Len(logs') = Min(Len(logs), max_log_entries)
          /\ \A i \in 1..Len(logs') : logs'[i] = logs[Len(logs) - Len(logs') + i]]_vars

\* C3 witness: 500 buffered entries, limit lowered from 1000 to 100, the call has
\* returned and the buffer holds pushes 401..500
C3_Witness ==
  /\ fg_pc = "idle"
  /\ fg_arg = 50
  /\ max_log_entries = 100
  /\ log_seq = 500
  /\ Len(logs) = 100
  /\ logs[1].arrival = 401
  /\ logs[100].arrival = 500

\* C4: find_any_newline returns the first CR or LF position, with length 2 exactly when
\* that byte is CR and the next byte is LF, and none when the data holds no CR or LF.
C4_FindAnyNewline ==
  call.fn = "find_any_newline" =>
    LET data == call.data
        newlines == {i \in 1..Len(data) : data[i] = CR \/ data[i] = LF}
    IN IF newlines = {}
       THEN ~call.out.some
       ELSE LET first == CHOOSE i \in newlines : \A j \in newlines : i <= j
            IN /\ call.out.some
               /\ call.out.pos = first - 1
               /\ call.out.len =
                    (IF data[first] = CR /\ first < Len(data) /\ data[first + 1] = LF THEN 2 ELSE 1)

\* C4 witness: a CRLF pair after a data byte is one boundary of length 2 at offset 1
C4_Witness ==
  /\ call.fn = "find_any_newline"
  /\ call.data = <<65, CR, LF, LF>>
  /\ call.out = Some(1, 2)

\* ------------------------------------------------------------------------
\* The reader thread segmenting scripted input
\* ------------------------------------------------------------------------
\* "AB" then "CD\n"
ScriptABthenCDLF == << <<65, 66>>, <<67, 68, LF>> >>
\* "a\r\nb" in one read
ScriptCRLFthenB == << <<97, CR, LF, 98>> >>
\* "A\r" then "\n": a CRLF pair split across two reads
ScriptSplitCRLF == << <<65, CR>>, <<LF>> >>
\* "hello"
ScriptHello == << <<104, 101, 108, 108, 111>> >>
\* "A" then "B"
ScriptAthenB == << <<65>>, <<66>> >>
\* "A\nB\nC" in one read
ScriptThreeLines == << <<65, LF, 66, LF, 67>> >>

ReaderChunks == {<<CR>>, <<LF>>}

ReaderScripts ==
  {ScriptABthenCDLF, ScriptCRLFthenB, ScriptSplitCRLF, ScriptHello, ScriptAthenB,
   ScriptThreeLines}
    \cup SeqsUpTo(ReaderChunks, MaxReads)

ReaderDelimiters == {AnyNewline, DelimLF, DelimCRLF, Custom(<<>>)}

ReaderConfigs ==
  { FrameSegmentationConfig(mode, timeout_ms, delimiter) :
      mode \in FrameSegmentationMode, timeout_ms \in {MIN_TIMEOUT_MS}, delimiter \in ReaderDelimiters }

\* arguments of set_frame_segmentation_config while the reader runs
ReaderCfgInputs ==
  { FrameSegmentationConfig("Timeout", 5, AnyNewline),
    FrameSegmentationConfig("Combined", MIN_TIMEOUT_MS, DelimLF) }

InitReader == InitWith(ReaderScripts, ReaderConfigs, {<<DEFAULT_MAX_LOG_ENTRIES, 0>>}, {FALSE})

NextReader ==
  \/ ReaderNext
  \/ \E new_config \in ReaderCfgInputs : SetFrameSegmentationConfig(new_config)

SpecReader == InitReader /\ [][NextReader]_vars

\* the data of the Received entries, oldest first
ReceivedData ==
  LET received == SelectSeq(logs, LAMBDA e : e.direction = "Received")
  IN [i \in 1..Len(received) |-> received[i].data]

\* the chunks of the whole run: those already read, then those still to come
Script == reads \o wire

\* every scripted byte has been read and the data branch of that iteration is over
InputProcessed == wire = <<>> /\ reader_pc \notin {"scan", "scan_stats"}

\* the configuration is the one the reader started with
ConfigFixed(mode, delimiter) ==
  /\ cfg_changes = 0
  /\ frame_segmentation_config.mode = mode
  /\ frame_segmentation_config.delimiter = delimiter

Last(s) == s[Len(s)]

\* C5: with AnyNewline active, a CR LF pair of the received stream never comes out as a
\* frame ending in CR followed by a frame that is only LF, however the stream is split
\* into reads.
C5_CRLFNeverSplitInTwoFrames ==
  ConfigFixed("Combined", AnyNewline) =>
    \A k \in 1..(Len(emitted) - 1) :
      ~ ( /\ emitted[k].cause = "delimiter"
          /\ emitted[k + 1].cause = "delimiter"
          /\ Last(emitted[k].data) = CR
          /\ emitted[k + 1].data = <<LF>> )

\* C6 as stated, read for the one mode of the code that scans for delimiters (Combined):
\* "AB" then "CD\n" with delimiter LF gives exactly one Received entry "ABCD\n", and
\* nothing is logged before the delimiter has arrived.
C6_Scenario == Script = ScriptABthenCDLF /\ ConfigFixed("Combined", DelimLF)

C7_Scenario == Script = ScriptHello /\ cfg_changes = 0 /\ frame_segmentation_config.mode = "Timeout"

C7_TimeoutModeEmission ==
  /\ [][ (seg_config.mode = "Timeout" /\ log_seq' # log_seq) =>
           /\ reader_pc \in {"ok0", "timedout"}
           /\ accumulated_data # <<>>
           /\ elapsed > seg_config.timeout_ms
           /\ Len(logs') = Len(logs) + 1
           /\ logs'[Len(logs')].direction = "Received"
           /\ logs'[Len(logs')].data = accumulated_data
           /\ data_len' = Len(accumulated_data)
           /\ reader_pc' = "flush_stats" ]_vars
  /\ [][ (reader_pc = "flush_stats" /\ reader_pc' # reader_pc) =>
           (reader_pc' = "loop" /\ accumulated_data' = <<>>) ]_vars
  /\ [](C7_Scenario =>
           /\ ReceivedData \in {<<>>, <<ScriptHello[1]>>}
           /\ (reads # <<>> /\ ReceivedData = <<>>) => accumulated_data = ScriptHello[1]
           /\ (ReceivedData # <<>> /\ reader_pc # "flush_stats") => accumulated_data = <<>>)

C7_Witness ==
  /\ C7_Scenario
  /\ ReceivedData = <<ScriptHello[1]>>
  /\ emitted[1].cause = "timeout"
  /\ emitted[1].elapsed > emitted[1].timeout_ms

\* C10: in Timeout mode no emitted frame holds a byte that was appended to older bytes
\* after an idle gap longer than timeout_ms.
C10_NoFrameSpansIdleGap ==
  cfg_changes = 0 =>
    \A k \in 1..Len(emitted) :
      emitted[k].mode = "Timeout" =>
        \A j \in 1..Len(emitted[k].late) : ~emitted[k].late[j]

\* ------------------------------------------------------------------------
\* The reader thread under fair scheduling, with a sender that may keep transmitting
\* ------------------------------------------------------------------------
LiveScripts == {<<>>, ScriptCRLFthenB, << <<65>> >>, << <<65, LF>> >>}

LiveConfigs ==
  { FrameSegmentationConfig("Combined", MIN_TIMEOUT_MS, delimiter) : delimiter \in {AnyNewline, DelimLF} }

InitLive == InitWith(LiveScripts, LiveConfigs, {<<DEFAULT_MAX_LOG_ENTRIES, 0>>}, BOOLEAN)

\* the steps of the reader thread; a byte of a data read may become the tracked byte
ReaderNextLive ==
  \/ ReaderBegin
  \/ \E track \in 0..1 : ReaderReadData(0, track)
  \/ \E track \in 0..1 : ReaderReadFlood(track)
  \/ ReaderEmitAnyNewlineFrame
  \/ ReaderEmitDelimiterFrame
  \/ ReaderCountDelimiterFrame
  \/ ReaderScanDone
  \/ ReaderReadZero
  \/ ReaderReadTimedOut
  \/ ReaderReadError
  \/ ReaderFlushOk0
  \/ ReaderFlushTimedOut
  \/ ReaderCountTimeoutFrame

NextLive == ReaderNextLive

\* the reader is an OS thread of its own: while it can take a step, it eventually does
SpecLive == InitLive /\ [][NextLive]_vars /\ WF_vars(ReaderNextLive)

\* C8: "a\r\nb" read at once in Combined mode with AnyNewline: "a\r\n" is logged by the
\* delimiter scan of the iteration that read it (no time elapsed), "b" only by a timeout
\* flush with more than timeout_ms elapsed, nothing else; and while the reader runs, both
\* entries are eventually there.
C8_Scenario == Script = ScriptCRLFthenB /\ ~flooding /\ ConfigFixed("Combined", AnyNewline)

C8_CombinedFrames ==
  /\ [](C8_Scenario =>
          /\ ReceivedData \in {<<>>, << <<97, CR, LF>> >>, << <<97, CR, LF>>, <<98>> >>}
          /\ (reads # <<>> /\ reader_pc # "scan") => Len(ReceivedData) >= 1
          /\ Len(emitted) >= 1 => emitted[1].cause = "delimiter" /\ emitted[1].elapsed = 0
          /\ Len(emitted) >= 2 =>
               emitted[2].cause = "timeout" /\ emitted[2].elapsed > emitted[2].timeout_ms)
  /\ (C8_Scenario /\ reads # <<>>) ~>
       (ReceivedData = << <<97, CR, LF>>, <<98>> >> \/ reader_pc = "exited")

C8_Witness ==
  /\ C8_Scenario
  /\ ReceivedData = << <<97, CR, LF>>, <<98>> >>
  /\ emitted[2].cause = "timeout"

\* C9: in Combined mode, while the reader loop keeps running, a byte placed in the
\* accumulation buffer is eventually emitted in a Received entry.
C9_EveryByteEventuallyEmitted ==
  (mark > 0 /\ seg_config.mode = "Combined") ~> (mark = -1 \/ reader_pc = "exited")

\* ------------------------------------------------------------------------
\* The delimiter scan and the emission of a frame
\* ------------------------------------------------------------------------
RECURSIVE Concat(_)
Concat(seqs) == IF seqs = <<>> THEN <<>> ELSE Head(seqs) \o Concat(Tail(seqs))

\* the boundary the scan of a Combined iteration looks for under the given delimiter
FirstBoundary(delimiter, data) ==
  IF is_any_newline(delimiter) THEN find_any_newline(data)
  ELSE find_delimiter(data, to_bytes(delimiter))

EmittedData == [k \in 1..Len(emitted) |-> emitted[k].data]

\* the buffered bytes that no emitted frame holds: a timeout flush clears the buffer only
\* after its frame has been logged and counted
Unemitted == IF reader_pc = "flush_stats" THEN <<>> ELSE accumulated_data

\* C11: the scan that follows a read is left only when the buffer holds no occurrence of
\* the delimiter of the iteration's configuration; each frame it emitted ends at the first
\* boundary it contains, and the frames emitted so far followed by the buffer are the bytes
\* read so far, in order. "A\nB\nC" read at once under Combined/LF is logged as "A\n" and
\* "B\n" before the reader is back at the top of its loop.
C11_Scenario == Script = ScriptThreeLines /\ ConfigFixed("Combined", DelimLF)

C11_AllFramesBeforeNextRead ==
  /\ [][ (reader_pc = "scan" /\ reader_pc' \notin {"scan", "scan_stats"}) =>
           /\ reader_pc' = "loop"
           /\ accumulated_data' = accumulated_data
           /\ seg_config.mode = "Combined" =>
                ~FirstBoundary(seg_config.delimiter, accumulated_data').some ]_vars
  /\ [][ reads' # reads => reader_pc = "read" ]_vars
  /\ [](\A k \in 1..Len(emitted) :
           emitted[k].cause = "delimiter" =>
             LET m == FirstBoundary(emitted[k].delimiter, emitted[k].data)
             IN m.some /\ m.pos + m.len = Len(emitted[k].data))
  /\ [](Concat(EmittedData) \o Unemitted = Concat(reads))
  /\ [](ReceivedData = EmittedData)
  /\ []((C11_Scenario /\ reads # <<>> /\ reader_pc \notin {"scan", "scan_stats"}) =>
           /\ Len(ReceivedData) >= 2
           /\ SubSeq(ReceivedData, 1, 2) = << <<65, LF>>, <<66, LF>> >>)

C11_Witness ==
  /\ C11_Scenario
  /\ reader_pc = "loop"
  /\ ReceivedData = << <<65, LF>>, <<66, LF>> >>
  /\ accumulated_data = <<67>>

CountPending == reader_pc \in {"scan_stats", "flush_stats"}

C13_BufferedBytesReprocessed ==
  /\ (reader_pc = "loop" /\ seg_config.mode = "Combined") =>
       ~FirstBoundary(seg_config.delimiter, accumulated_data).some
  /\ \A k \in 1..Len(emitted) :
       emitted[k].mode = "Combined" =>
         LET m == FirstBoundary(emitted[k].delimiter, emitted[k].data)
         IN m.some => m.pos + m.len = Len(emitted[k].data)

\* ------------------------------------------------------------------------
\* The manager from SerialManager::new() on: connect, disconnect, send_data, recordings
\* ------------------------------------------------------------------------
\* "A\nB" waits on the line of the first port that is opened
MgrScripts == {<< <<65, LF, 66>> >>}

MgrConfigs == {FrameSegmentationConfig("Combined", MIN_TIMEOUT_MS, DelimLF)}

\* "A" followed by a byte that is not ASCII
SendInputs == {<<65, 200>>}

InitMgr == InitNew(MgrScripts, MgrConfigs)

ConnectNext ==
  \/ \E name \in PortNames : ConnectCall(name, DefaultSerialConfig)
  \/ ConnectDisconnectFinish
  \/ ConnectOpenFails
  \/ ConnectCloneFails
  \/ ConnectSpawn
  \/ ConnectFinish

DisconnectNext ==
  \/ DisconnectNotConnected
  \/ DisconnectBegin
  \/ DisconnectFinish

SendNext ==
  \/ \E data \in SendInputs : SendData(data)
  \/ \E data \in SendInputs : SendDataNotConnected(data)
  \/ \E data \in SendInputs : \E n \in 0..1 : SendDataWriteFails(data, n)

\* the reader thread on a line whose reads return data, time out or fail
ReaderNextMgr ==
  \/ ReaderBegin
  \/ ReaderReadData(0, 0)
  \/ ReaderEmitDelimiterFrame
  \/ ReaderCountDelimiterFrame
  \/ ReaderScanDone
  \/ ReaderReadTimedOut
  \/ ReaderReadError
  \/ ReaderFlushTimedOut
  \/ ReaderCountTimeoutFrame

NextMgr ==
  \/ ReaderNextMgr
  \/ ConnectNext
  \/ DisconnectNext
  \/ SendNext
  \/ StartTextRecording
  \/ StartRawRecording

SpecMgr == InitMgr /\ [][NextMgr]_vars

\* ------------------------------------------------------------------------
\* disconnect, connect and send_data
\* ------------------------------------------------------------------------
\* C14: a disconnect call on a manager that is not connected returns Ok and changes
\* nothing else: connection flag, port name, config, port handle, shutdown flag,
\* statistics, log buffer, recording handles and paths, reader thread. The call is always
\* possible on an idle manager that is not connected.
C14_DisconnectWhenNotConnected ==
  /\ [][ (~is_connected /\ fg_pc = "idle" /\ ret'.op = "disconnect" /\ ret' # ret) =>
           /\ ret' = Returned("disconnect", "Ok")
           /\ ManagerView' = ManagerView
           /\ fg_pc' = "idle"
           /\ outVars' = outVars ]_vars
  /\ []((~is_connected /\ fg_pc = "idle") => ENABLED DisconnectNotConnected)

\* after a failed connect, with a text recording started while disconnected
C14_Witness ==
  /\ ret = Returned("disconnect", "Ok")
  /\ connects = 1
  /\ ~is_connected
  /\ reader_pc = "none"
  /\ text_file
  /\ ~shutdown_flag

ConnectOpening == fg_pc \in {"connect_open", "connect_finish"}

\* C16 as stated: the step with which connect returns Ok leaves the manager connected to
\* the requested port, the shutdown flag cleared, a reader loop running, connection_time
\* set and both byte counters at 0.
C16_CountersZeroAtReturn ==
  [][ (fg_pc = "connect_finish" /\ fg_pc' # fg_pc) =>
        /\ is_connected' /\ current_port'
        /\ port_name' = fg_port_name
        /\ ~shutdown_flag'
        /\ reader_pc' \notin {"none", "exited"}
        /\ stats'.connection_time # NoValue
        /\ stats'.bytes_sent = 0
        /\ stats'.bytes_received = 0 ]_vars

\* C16: the step with which connect returns Ok leaves the manager connected to the
\* requested port with the requested config, the port handle stored, the shutdown flag
\* cleared, a reader thread spawned, connection_time set and bytes_sent = 0. connect reaches
\* its open only on a disconnected manager, and from there on it writes neither byte
\* counter: bytes_received at the return is what reader threads have counted since the
\* statistics were last reset.
C16_AfterConnect ==
  /\ [][ (fg_pc = "connect_finish" /\ fg_pc' # fg_pc) =>
           /\ fg_pc' = "idle"
           /\ ret' = Returned("connect", "Ok")
           /\ is_connected' /\ current_port'
           /\ port_name' = fg_port_name
           /\ config' = fg_config
           /\ ~shutdown_flag'
           /\ reader_pc' # "none"
           /\ stats'.connection_time # NoValue
           /\ stats'.bytes_sent = 0
           /\ stats'.bytes_received = stats.bytes_received ]_vars
  /\ [][ (fg_pc = "connect_open" /\ fg_pc' = "connect_finish") =>
           /\ ~shutdown_flag'
           /\ reader_pc' = "loop"
           /\ accumulated_data' = <<>>
           /\ stats' = stats ]_vars
  /\ [](ConnectOpening =>
           /\ ~is_connected /\ ~current_port
           /\ port_name = NoValue /\ config = NoValue
           /\ stats.bytes_sent = 0 /\ stats.connection_time = NoValue)
  /\ []((fg_pc = "idle" /\ ret = Returned("connect", "Ok")) =>
           /\ is_connected /\ current_port
           /\ port_name = fg_port_name /\ config = fg_config
           /\ stats.connection_time # NoValue)

\* the second connect has returned on COM2 after bytes were sent over the first connection
C16_Witness ==
  /\ fg_pc = "idle"
  /\ ret = Returned("connect", "Ok")
  /\ connects = 2
  /\ is_connected
  /\ port_name = Present("COM2")
  /\ port_out # <<>>
  /\ stats.bytes_sent = 0
  /\ ~shutdown_flag

\* C17: when connect returns an error from its open (builder.open() or try_clone()), the
\* connection state is the one the call found: is_connected, port name, config, port
\* handle, bytes_sent, connection_time, recording handles and paths.
C17_FailedConnectChangesNothing ==
  [][ (fg_pc = "connect_open" /\ fg_pc' = "idle" /\ ret' = Returned("connect", "Err")) =>
        Present(ConnectionView') = pre ]_vars

\* the Sent entries of the log buffer
SentEntries == SelectSeq(logs, LAMBDA e : e.direction = "Sent")

\* C18: a send_data call on a manager that is not connected returns Err and changes
\* nothing else; no step taken while the manager is idle and not connected writes to the
\* port, counts sent bytes or appends a Sent entry, and no successful send is possible.
C18_SendWhenNotConnected ==
  /\ [][ (~is_connected /\ fg_pc = "idle" /\ ret'.op = "send_data" /\ ret' # ret) =>
           /\ ret' = Returned("send_data", "Err")
           /\ ManagerView' = ManagerView
           /\ fg_pc' = "idle"
           /\ outVars' = outVars ]_vars
  /\ [][ (~is_connected /\ fg_pc = "idle") =>
           /\ port_out' = port_out
           /\ stats'.bytes_sent = stats.bytes_sent
           /\ SentEntries' = SentEntries
           /\ ret' # Returned("send_data", "Ok") \/ ret' = ret ]_vars
  /\ []((~is_connected /\ fg_pc = "idle") =>
           /\ \A data \in SendInputs : ENABLED SendDataNotConnected(data)
           /\ \A data \in SendInputs : ~ENABLED SendData(data))

\* send_data has failed on a manager that was disconnected with both recordings started
\* again afterwards
C18_Witness ==
  /\ ret = Returned("send_data", "Err")
  /\ ~is_connected
  /\ fg_pc = "idle"
  /\ connects = 1
  /\ shutdown_flag
  /\ text_file /\ raw_file
  /\ port_out = <<>>
  /\ SentEntries = <<>>

C20_FailedWrite ==
  /\ [][ (is_connected /\ fg_pc = "idle" /\ ret' = Returned("send_data", "Err")
            /\ (ret' # ret \/ port_out' # port_out)) =>
           /\ ManagerView' = ManagerView
           /\ is_connected'
           /\ fg_pc' = "idle"
           /\ readerVars' = readerVars
           /\ text_out' = text_out
           /\ raw_out' = raw_out
           /\ \E data \in SendInputs : \E n \in 0..(Len(data) - 1) :
                port_out' = port_out \o SubSeq(data, 1, n) ]_vars
  /\ [][ (is_connected /\ fg_pc = "idle" /\ port_out' # port_out) =>
           ret'.op = "send_data" ]_vars

\* the write failed after one byte had gone out, both recordings active, the reader running
C20_Witness ==
  /\ ret = Returned("send_data", "Err")
  /\ is_connected /\ current_port
  /\ fg_pc = "idle"
  /\ port_out = <<65>>
  /\ stats.bytes_sent = 0
  /\ SentEntries = <<>>
  /\ text_file /\ raw_file
  /\ reader_pc \notin {"none", "exited"}

\* ------------------------------------------------------------------------
\* The end of the reader thread
\* ------------------------------------------------------------------------
\* the caller is inside a disconnect, or inside a connect
Disconnecting == fg_pc \in {"disconnect_sleep", "connect_disconnect_sleep"}

C22_HexInputValidated ==
  call.fn = "parse_hex" =>
    LET cleaned == cleaned_hex(call.data)
        well_formed == /\ Len(cleaned) % 2 = 0
                       /\ \A i \in 1..Len(cleaned) : cleaned[i] \in HexDigitChars
    IN /\ call.out.ok <=> well_formed
       /\ call.out.ok =>
            call.out.bytes = [k \in 1..(Len(cleaned) \div 2) |->
                                16 * to_digit(cleaned[2 * k - 1]) + to_digit(cleaned[2 * k])]

\* ------------------------------------------------------------------------
\* The recordings of a connected manager, with the reader running and the caller sending
\* ------------------------------------------------------------------------
\* "A\nB" arrives in one read
RecScripts == {<< <<65, LF, 66>> >>}

RecConfigs == {FrameSegmentationConfig("Combined", MIN_TIMEOUT_MS, DelimLF)}

InitRec == InitWith(RecScripts, RecConfigs, {<<DEFAULT_MAX_LOG_ENTRIES, 0>>}, {FALSE})

RecordingNext ==
  \/ StartTextRecording
  \/ StartTextRecordingAlreadyActive
  \/ StartTextRecordingFails
  \/ StopTextRecording
  \/ StartRawRecording
  \/ StartRawRecordingAlreadyActive
  \/ StartRawRecordingFails
  \/ StopRawRecording

NextRec ==
  \/ ReaderNextMgr
  \/ RecordingNext
  \/ \E data \in SendInputs : SendData(data)

SpecRec == InitRec /\ [][NextRec]_vars

\* C23: a start call on a channel that is active returns the "already active" error and
\* changes nothing: handle and path of the channel, the other channel, what the files
\* hold, and every other field. While a channel is active, a start of it cannot succeed.
C23_DoubleStart ==
  /\ [][ (text_file /\ ret'.op = "start_text_recording" /\ ret' # ret) =>
           /\ ret' = Returned("start_text_recording", "AlreadyActive")
           /\ recVars' = recVars
           /\ ManagerView' = ManagerView
           /\ outVars' = outVars ]_vars
  /\ [][ (raw_file /\ ret'.op = "start_raw_recording" /\ ret' # ret) =>
           /\ ret' = Returned("start_raw_recording", "AlreadyActive")
           /\ recVars' = recVars
           /\ ManagerView' = ManagerView
           /\ outVars' = outVars ]_vars
  /\ []((fg_pc = "idle" /\ text_file) =>
          (ENABLED StartTextRecordingAlreadyActive /\ ~ENABLED StartTextRecording))
  /\ []((fg_pc = "idle" /\ raw_file) =>
          (ENABLED StartRawRecordingAlreadyActive /\ ~ENABLED StartRawRecording))

\* the second start of the text recording has failed; the recording holds a line and the
\* raw channel is inactive
C23_Witness ==
  /\ ret = Returned("start_text_recording", "AlreadyActive")
  /\ text_file
  /\ text_file_path # NoValue
  /\ text_out # <<>>
  /\ ~raw_file

\* ------------------------------------------------------------------------
\* Display formatting
\* ------------------------------------------------------------------------
\* the payload of the call does not decode under the encoding of the call's settings
DecodingFails ==
  IF call.settings.encoding = "Utf8" THEN ~from_utf8(call.data).ok
  ELSE ~gbk_decode(call.data).ok

CfgScripts == {<< <<65, LF, 66>> >>}

CfgConfigs == {FrameSegmentationConfig("Combined", MIN_TIMEOUT_MS, AnyNewline)}

\* requests below, inside and above the range
CfgInputs ==
  { FrameSegmentationConfig("Timeout", 0, AnyNewline),
    FrameSegmentationConfig("Delimiter", 500, DelimCRLF),
    FrameSegmentationConfig("Combined", 2000, DelimLF) }

InitCfg == InitWith(CfgScripts, CfgConfigs, {<<DEFAULT_MAX_LOG_ENTRIES, 0>>}, {FALSE})

NextCfg ==
  \/ ReaderNext
  \/ \E new_config \in CfgInputs : SetFrameSegmentationConfig(new_config)

SpecCfg == InitCfg /\ [][NextCfg]_vars

\* what a request is to be stored as
StoredFor(request) ==
  [mode |-> request.mode,
   timeout_ms |-> IF request.timeout_ms < 10 THEN 10
                  ELSE IF request.timeout_ms > 1000 THEN 1000
                  ELSE request.timeout_ms,
   delimiter |-> request.delimiter]

\* C25: the stored configuration always has timeout_ms within 10..1000, and so has the
\* snapshot the reader works with; every request can be made, and a step that changes the
\* stored configuration stores a request with its mode and delimiter as requested and its
\* timeout clamped into the range.
C25_TimeoutWithinRange ==
  /\ [](frame_segmentation_config.timeout_ms \in 10..1000)
  /\ [](seg_config.timeout_ms \in 10..1000)
  /\ []((fg_pc = "idle" /\ cfg_changes < MaxCfgChanges) =>
          \A request \in CfgInputs : ENABLED SetFrameSegmentationConfig(request))
  /\ [][ frame_segmentation_config' # frame_segmentation_config =>
           \E request \in CfgInputs :
             /\ frame_segmentation_config' = StoredFor(request)
             /\ <<SetFrameSegmentationConfig(request)>>_vars ]_vars

\* a request for 2000 ms was stored as 1000 ms, and the reader is in a read with it
C25_Witness ==
  /\ frame_segmentation_config = FrameSegmentationConfig("Combined", 1000, DelimLF)
  /\ seg_config = frame_segmentation_config
  /\ reader_pc = "read"

\* ------------------------------------------------------------------------
\* The display settings while the reader runs and the caller sends
\* ------------------------------------------------------------------------
\* "A\nB" arrives in one read
DispScripts == {<< <<65, LF, 66>> >>}

DispConfigs == {FrameSegmentationConfig("Combined", MIN_TIMEOUT_MS, DelimLF)}

InitDisp == InitWith(DispScripts, DispConfigs, {<<DEFAULT_MAX_LOG_ENTRIES, 1>>}, {FALSE})

DisplayNext ==
  \/ \E format \in {"Hex", "Txt"} : SetDisplayFormat(format)
  \/ \E encoding \in {"Utf8", "Gbk"} : SetTextEncoding(encoding)
  \/ \E special_char_config \in SpecialCharInputs : SetSpecialCharConfig(special_char_config)
  \/ \E show \in BOOLEAN : SetShowTimestamps(show)

NextDisp ==
  \/ ReaderNextMgr
  \/ DisplayNext
  \/ \E data \in SendInputs : SendData(data)

SpecDisp == InitDisp /\ [][NextDisp]_vars

\* the entries of the buffer by their push ordinal
EntryAt(q, arrival) == {q[i] : i \in {k \in 1..Len(q) : q[k].arrival = arrival}}

\* no step alters the rendered fields of an entry that stays in the buffer
C26_ExistingEntriesFrozen ==
  [][ \A i \in 1..Len(logs) : \A log_entry \in EntryAt(logs', logs[i].arrival) :
        /\ display_text(log_entry) = display_text(logs[i])
        /\ timestamp_formatted(log_entry) = timestamp_formatted(logs[i]) ]_vars

\* C26: a change of the display settings alters no entry that is in the buffer, and an
\* entry pushed once the change has returned is rendered with the settings then stored:
\* its display_text is format_data_for_display of its data under them and it has a
\* formatted timestamp exactly if show_timestamps is set.
C26_SettingsApplyToLaterEntries ==
  /\ C26_ExistingEntriesFrozen
  /\ [][ log_seq' = log_seq + 1 =>
           LET log_entry == logs'[Len(logs')]
           IN /\ display_text(log_entry) =
                   format_data_for_display(log_entry.data, display_settings)
              /\ (timestamp_formatted(log_entry) # {}) = display_settings.show_timestamps ]_vars

\* ------------------------------------------------------------------------
\* The life of the reader thread
\* ------------------------------------------------------------------------
\* the reader thread spawned last has not ended
ReaderAlive == reader_pc \notin {"none", "exited"}

\* C27: at most one reader thread is alive: whenever connect spawns a reader thread, the
\* thread spawned by the connect before it has ended.
C27_AtMostOneReader ==
  [][ (fg_pc = "connect_open" /\ fg_pc' = "connect_finish") => ~ReaderAlive ]_vars

\* connect and disconnect calls with a reader thread that is scheduled again and again:
\* a read returns within the port's timeout and the thread is never suspended for good
NextLife ==
  \/ ReaderNextMgr
  \/ ConnectNext
  \/ DisconnectNext

SpecLife == InitMgr /\ [][NextLife]_vars /\ WF_vars(ReaderNextMgr)

\* C28: once disconnect has set the shutdown flag, the reader thread ends at its next flag
\* check: it starts no read while the manager is disconnected and no call is running,
\* and as long as that lasts it eventually ends.
C28_ReaderExitsAfterShutdown ==
  /\ [][ (reader_pc = "loop" /\ reader_pc' = "read") => (is_connected \/ fg_pc # "idle") ]_vars
  /\ []((~is_connected /\ fg_pc = "idle" /\ ReaderAlive) => <>(~ReaderAlive \/ fg_pc # "idle"))

\* ------------------------------------------------------------------------
\* The byte counters
\* ------------------------------------------------------------------------
\* a byte counter goes down only in the step of disconnect that resets the statistics
C29_LoweredOnlyByDisconnect ==
  [][ (stats'.bytes_sent < stats.bytes_sent \/ stats'.bytes_received < stats.bytes_received) =>
        /\ Disconnecting
        /\ fg_pc' # fg_pc
        /\ stats' = DefaultSerialStats ]_vars

\* C29: the byte counters never decrease except by the reset of disconnect, and from that
\* reset until the next connect call both are 0 and connection_time is absent.
C29_CountersMonotonic ==
  /\ C29_LoweredOnlyByDisconnect
  /\ []((~is_connected /\ fg_pc = "idle") => stats = DefaultSerialStats)

\* ------------------------------------------------------------------------
\* Recording writes against start and stop
\* ------------------------------------------------------------------------
\* C30: a write to a recording file is one step with the check of the channel's handle:
\* a step that writes finds the handle in place and leaves handle and path as they are
\* (so it is no step of a start or stop, and no write follows the stop that took the
\* handle until a start has put a new one), it appends one line to the text file or the
\* bytes read to the raw file, a frame emitted or a chunk read while the channel is
\* active is written, and one emitted or read while it is inactive writes nothing.
C30_WritesSerializedWithStartStop ==
  /\ [][ text_out' # text_out =>
           /\ text_file /\ text_file'
           /\ text_file_path' = text_file_path
           /\ ret'.op \notin {"start_text_recording", "stop_text_recording"} \/ ret' = ret
           /\ Len(text_out') = Len(text_out) + 1
           /\ SubSeq(text_out', 1, Len(text_out)) = text_out ]_vars
  /\ [][ raw_out' # raw_out =>
           /\ raw_file /\ raw_file'
           /\ raw_file_path' = raw_file_path
           /\ ret'.op \notin {"start_raw_recording", "stop_raw_recording"} \/ ret' = ret
           /\ Len(raw_out') > Len(raw_out)
           /\ SubSeq(raw_out', 1, Len(raw_out)) = raw_out ]_vars
  /\ [][ log_seq' = log_seq + 1 =>
           /\ text_file => text_out' = Append(text_out, text_out'[Len(text_out')])
           /\ ~text_file => text_out' = text_out ]_vars
  /\ [][ Len(reads') > Len(reads) =>
           /\ raw_file => raw_out' = raw_out \o reads'[Len(reads')]
           /\ ~raw_file => raw_out' = raw_out ]_vars

\* the text recording was stopped after the line of the first frame, and the second frame
\* was logged without a line; the raw recording, started before the read, holds its bytes
C30_Witness ==
  /\ ret = Returned("stop_text_recording", "Ok")
  /\ ~text_file
  /\ text_out = <<[dir_label |-> "RX", text |-> <<65, LF>>]>>
  /\ ReceivedData = << <<65, LF>>, <<66>> >>
  /\ raw_file
  /\ raw_out = <<65, LF, 66>>

\* ------------------------------------------------------------------------
\* The version check of the updater
\* ------------------------------------------------------------------------
\* a version string as the updater documents it: an optional 'v', then three fields
\* separated by '.', each one or more decimal digits
WithoutLeadingV(version) ==
  IF version # <<>> /\ Head(version) = CharV THEN Tail(version) ELSE version

DotPositions(s) == {i \in 1..Len(s) : s[i] = CharDot}

IsNumber(field) ==
  field # <<>> /\ \A i \in 1..Len(field) : field[i] \in DecimalDigitChars

WellFormedVersion(version) ==
  LET s == WithoutLeadingV(version)
      dots == DotPositions(s)
  IN /\ Cardinality(dots) = 2
     /\ \E i, j \in dots :
          /\ i < j
          /\ IsNumber(SubSeq(s, 1, i - 1))
          /\ IsNumber(SubSeq(s, i + 1, j - 1))
          /\ IsNumber(SubSeq(s, j + 1, Len(s)))

\* the three fields of a well-formed version
FieldsOf(version) ==
  LET s == WithoutLeadingV(version)
      i == CHOOSE i \in DotPositions(s) : \A j \in DotPositions(s) : i <= j
      j == CHOOSE j \in DotPositions(s) : \A k \in DotPositions(s) : k <= j
  IN <<SubSeq(s, 1, i - 1), SubSeq(s, i + 1, j - 1), SubSeq(s, j + 1, Len(s))>>

\* x padded on the left with zeros to n digits
PadZeros(x, n) == [k \in 1..n |-> IF k <= n - Len(x) THEN 48 ELSE x[k - (n - Len(x))]]

\* x is numerically less than y: at the first digit where they differ, once padded to the
\* same length, x has the smaller one
NumLess(x, y) ==
  LET n == IF Len(x) > Len(y) THEN Len(x) ELSE Len(y)
      a == PadZeros(x, n)
      b == PadZeros(y, n)
  IN \E k \in 1..n : a[k] < b[k] /\ \A m \in 1..(k - 1) : a[m] = b[m]

NumEqual(x, y) == ~NumLess(x, y) /\ ~NumLess(y, x)

\* version a is less than version b by (major, minor, patch)
VersionLess(a, b) ==
  LET fa == FieldsOf(a)
      fb == FieldsOf(b)
  IN \E k \in 1..3 : NumLess(fa[k], fb[k]) /\ \A m \in 1..(k - 1) : NumEqual(fa[m], fb[m])

\* C31: compare_versions orders two version strings by their (major, minor, patch)
\* triples compared numerically, ignoring a leading 'v', and returns none when either
\* string is not exactly three dot-separated non-negative integers; check_for_updates
\* reports has_update only when the latest version is strictly greater than the current
\* one.
C31_CompareVersions ==
  /\ call.fn = "compare_versions" =>
       LET a == call.data[1]
           b == call.data[2]
       IN /\ call.out.some <=> (WellFormedVersion(a) /\ WellFormedVersion(b))
          /\ (WellFormedVersion(a) /\ WellFormedVersion(b)) =>
               call.out.ordering = IF VersionLess(a, b) THEN "Less"
                                   ELSE IF VersionLess(b, a) THEN "Greater"
                                   ELSE "Equal"
  /\ call.fn = "check_for_updates" =>
       (call.out.has_update =>
          /\ WellFormedVersion(call.data[1])
          /\ WellFormedVersion(call.data[2])
          /\ VersionLess(call.data[2], call.data[1]))

\* the part of C31 the code keeps: a result is an order of the triples parsed, and
\* has_update is set exactly when the fetched tag compares greater
C31_OrderOfParsedTriples ==
  /\ call.fn = "compare_versions" =>
       (call.out.some =>
          LET a == parse_version(call.data[1]).triple
              b == parse_version(call.data[2]).triple
          IN call.out.ordering = IF \E k \in 1..3 : /\ NumLess(a[k], b[k])
                                                    /\ \A m \in 1..(k - 1) : a[m] = b[m]
                                 THEN "Less"
                                 ELSE IF a = b THEN "Equal" ELSE "Greater")
  /\ call.fn = "check_for_updates" =>
       (call.out.has_update <=>
          compare_versions(call.data[1], call.data[2]) = [some |-> TRUE, ordering |-> "Greater"])

\* ------------------------------------------------------------------------
\* Frames cut at a delimiter
\* ------------------------------------------------------------------------
\* the 0-based offsets at which delimiter occurs in data as a contiguous subsequence
Occurrences(data, delimiter) ==
  {i \in 0..(Len(data) - Len(delimiter)) : SubSeq(data, i + 1, i + Len(delimiter)) = delimiter}

\* delimiters searched for in every buffer the reader reaches: none, one byte, two bytes,
\* three bytes
SearchedDelimiters == {<<>>, <<LF>>, <<CR>>, <<CR, LF>>, <<66, LF>>, <<65, LF, 66>>}

\* a pass of either while-let loop cuts a frame off the buffer
DelimiterMatchStep == reader_pc = "scan" /\ reader_pc' = "scan_stats"

\* C32: every frame emitted by a delimiter match is the accumulation buffer up to and
\* including the first occurrence of the delimiter: it ends with the delimiter and holds
\* no earlier occurrence (for any-newline: it ends with CR, LF or CR LF and holds no other
\* CR or LF), and the bytes after it stay accumulated in order; find_delimiter returns the
\* first offset of the delimiter and none when the delimiter is empty or longer than the
\* buffer.
C32_FrameEndsAtFirstDelimiter ==
  /\ [][ DelimiterMatchStep =>
           LET frame == Last(emitted').data
               n == Len(frame)
               delimiter == to_bytes(seg_config.delimiter)
           IN /\ Len(emitted') = Len(emitted) + 1
              /\ Last(logs').data = frame
              /\ accumulated_data = frame \o accumulated_data'
              /\ n > 0
              /\ IF is_any_newline(seg_config.delimiter)
                 THEN /\ frame[n] \in {CR, LF}
                      /\ \A i \in 1..(n - 1) :
                           frame[i] \in {CR, LF} => (i = n - 1 /\ frame[i] = CR /\ frame[n] = LF)
                 ELSE /\ delimiter # <<>>
                      /\ n >= Len(delimiter)
                      /\ SubSeq(frame, n - Len(delimiter) + 1, n) = delimiter
                      /\ Occurrences(frame, delimiter) = {n - Len(delimiter)} ]_vars
  /\ [](\A delimiter \in SearchedDelimiters :
          LET found == find_delimiter(accumulated_data, delimiter)
              at == Occurrences(accumulated_data, delimiter)
          IN /\ (delimiter = <<>> \/ Len(delimiter) > Len(accumulated_data)) => ~found.some
             /\ found.some <=> (delimiter # <<>> /\ at # {})
             /\ found.some => (found.pos \in at /\ \A i \in at : found.pos <= i))

\* "a\r\n" was cut off "a\r\nb" at the two-byte delimiter and "b" stays accumulated
C32_Witness ==
  /\ emitted # <<>>
  /\ Last(emitted).cause = "delimiter"
  /\ Last(emitted).delimiter = DelimCRLF
  /\ Last(emitted).data = <<97, CR, LF>>
  /\ accumulated_data = <<98>>
  /\ ~find_delimiter(accumulated_data, <<CR, LF>>).some

\* ------------------------------------------------------------------------
\* The locks of the reader thread
\* ------------------------------------------------------------------------
\* the reader is inside read_port.read(), or inside find_any_newline / find_delimiter
ReaderBlockedInRead == reader_pc = "read" /\ reader_todo = <<>>
ReaderScanning == reader_pc = "scan" /\ reader_todo = <<>>

\* C33: the reader thread holds none of the locks of the shared state while it is inside
\* the blocking read or scans the accumulation buffer for a delimiter; the segmentation
\* config and the display settings are copied out and their locks released before the
\* read starts.
C33_NoLockAcrossReadOrScan ==
  (ReaderBlockedInRead \/ ReaderScanning) => Held("reader") = {}

\* the reader is blocked in read() while a foreground setter holds the lock of the
\* segmentation config
C33_Witness ==
  /\ ReaderBlockedInRead
  /\ lock_owner["frame_segmentation_config"] = "caller"
  /\ fg_pc = "set_frame_segmentation_config"

\* a thread waits in lock() for a mutex whose guard another thread, or itself, holds
WaitsFor(todo, thread) ==
  /\ todo # <<>>
  /\ Head(todo).op = "lock"
  /\ lock_owner[Head(todo).mutex] = thread

\* the nested acquisitions there are: outer mutex, inner mutex
LockOrder ==
  {<<"text_file", "timezone_offset_minutes">>, <<"logs", "max_log_entries">>}

\* C38: no interleaving of the reader loop with the foreground operations deadlocks:
\* every nested lock acquisition follows one order (recording file handle before timezone
\* offset, log buffer before max-entries limit), and no state is reached in which the
\* reader and the caller wait for each other or a thread waits for its own guard.
C38_NoDeadlock ==
  /\ [][ \A thread \in {"reader", "caller"} : \A m \in Mutexes :
           (lock_owner[m] # thread /\ lock_owner'[m] = thread) =>
              \A outer \in Held(thread) : <<outer, m>> \in LockOrder ]_vars
  /\ [](~(WaitsFor(reader_todo, "caller") /\ WaitsFor(fg_todo, "reader")))
  /\ [](~WaitsFor(reader_todo, "reader") /\ ~WaitsFor(fg_todo, "caller"))
  /\ [](\A thread \in {"reader", "caller"} : \A a, b \in Held(thread) :
          a # b => (<<a, b>> \in LockOrder \/ <<b, a>> \in LockOrder))

\* the reader holds the log buffer and waits for the limit, which set_max_log_entries holds
C38_Witness ==
  /\ lock_owner["logs"] = "reader"
  /\ WaitsFor(reader_todo, "caller")
  /\ Head(reader_todo).mutex = "max_log_entries"
  /\ fg_pc = "set_max_log_entries"
  /\ ~WaitsFor(fg_todo, "reader")

\* ------------------------------------------------------------------------
\* The lines of the text recording
\* ------------------------------------------------------------------------
\* the line terminators writeln!(file, "[{}] {}: {}", timestamp, dir_label, text) puts
\* into the file: the one it appends, and every LF the text itself holds
line_terminators(written) == 1 + Cardinality({i \in 1..Len(written.text) : written.text[i] = LF})

\* the lines of the text file so far
RECURSIVE FileLines(_)
FileLines(out) ==
  IF out = <<>> THEN 0 ELSE line_terminators(Head(out)) + FileLines(Tail(out))

\* a LogEntry is created while the text recording is active
EntryCreatedWhileRecording == log_seq' = log_seq + 1 /\ text_file

\* C34: while text recording is active the text file gains exactly one line per frame:
\* every Received frame and every sent payload appends exactly one line, "RX" or "TX"
\* by its direction, so the lines appended equal the LogEntries created while the channel
\* was active, also for frames whose data holds CR or LF bytes.
C34_OneLinePerEntry ==
  [][ EntryCreatedWhileRecording =>
        /\ FileLines(text_out') = FileLines(text_out) + 1
        /\ Last(text_out').dir_label =
             (IF Last(logs').direction = "Received" THEN "RX" ELSE "TX") ]_vars

\* what holds of C34: one writeln! per LogEntry created while recording, with the label
\* of the entry's direction and the lossily decoded data, and none while not recording
C34_OneWritePerEntry ==
  [][ /\ EntryCreatedWhileRecording =>
           /\ Len(text_out') = Len(text_out) + 1
           /\ Last(text_out').dir_label =
                (IF Last(logs').direction = "Received" THEN "RX" ELSE "TX")
           /\ Last(text_out').text = from_utf8_lossy(Last(logs').data)
      /\ (log_seq' = log_seq + 1 /\ ~text_file) => text_out' = text_out ]_vars

\* ------------------------------------------------------------------------
\* Conservation of the received bytes
\* ------------------------------------------------------------------------
\* the reader is between two iterations, or has ended
BetweenIterations == reader_pc \in {"loop", "exited"}

\* C35: within one connection segmentation neither loses, duplicates nor reorders bytes:
\* between reader iterations the data of the Received entries in order, followed by the
\* accumulation buffer, is exactly the sequence of bytes the reads have returned, under
\* every sequence of segmentation-config changes.
C35_BytesConserved ==
  BetweenIterations => Concat(ReceivedData) \o accumulated_data = Concat(reads)

\* two reads, a config change in between, one frame flushed by timeout and one cut at a
\* delimiter
C35_Witness ==
  /\ reader_pc = "loop"
  /\ cfg_changes > 0
  /\ \E j, k \in 1..Len(emitted) : emitted[j].cause = "timeout" /\ emitted[k].cause = "delimiter"
  /\ ReceivedData = EmittedData
  /\ Len(reads) >= 2
  /\ wire = <<>>

\* ------------------------------------------------------------------------
\* The bytes left in the buffer of a reader that ends
\* ------------------------------------------------------------------------
\* the lines the reader has written to text recordings
ReceivedLines == SelectSeq(text_out, LAMBDA written : written.dir_label = "RX")

\* the reader thread ends: it saw the shutdown flag, or a read failed
ReaderEnds == reader_pc # "exited" /\ reader_pc' = "exited"

\* C36: a reader loop that ends (shutdown flag seen, or a fatal read error) emits no frame
\* for the bytes still in its accumulation buffer: they are in no LogEntry, they are not
\* counted in bytes_received and they are not written to the text recording.
C36_LeftoverNeverEmitted ==
  /\ [][ ReaderEnds =>
           /\ reader_pc \in {"loop", "read"}
           /\ logs' = logs
           /\ stats' = stats
           /\ text_out' = text_out
           /\ emitted' = emitted
           /\ accumulated_data' = accumulated_data ]_vars
  /\ [](reader_pc = "exited" => Concat(EmittedData) \o accumulated_data = Concat(reads))
  /\ [][ (reader_pc = "exited" /\ reader_pc' = "exited") =>
           /\ ReceivedData' = ReceivedData
           /\ ReceivedLines' = ReceivedLines
           /\ stats'.bytes_received <= stats.bytes_received
           /\ accumulated_data' = accumulated_data ]_vars

\* "A\nB" was read, "A\n" was logged, and the reader saw the shutdown flag with "B" buffered
C36_Witness ==
  /\ reader_pc = "exited"
  /\ shutdown_flag
  /\ EmittedData = << <<65, LF>> >>
  /\ accumulated_data = <<66>>
  /\ stats.bytes_received = 0
  /\ \A i \in 1..Len(logs) : logs[i].data # <<66>>

\* ------------------------------------------------------------------------
\* The reader thread after disconnect has returned
\* ------------------------------------------------------------------------
\* disconnect has returned and no connect has been called since
DisconnectReturned == ~is_connected /\ fg_pc = "idle" /\ ret = Returned("disconnect", "Ok")

\* C37: after disconnect() has returned the reader loop started by the preceding connect
\* changes no shared state: no Received LogEntry is appended and bytes_received is not
\* incremented, in every interleaving of the reader with the steps of disconnect.
C37_ReaderSilentAfterDisconnect ==
  [][ DisconnectReturned =>
        /\ ReceivedData' = ReceivedData
        /\ stats'.bytes_received = stats.bytes_received ]_vars

\* ------------------------------------------------------------------------
\* The recording status after calls that fail
\* ------------------------------------------------------------------------
\* C39: after every sequence of start and stop recording calls and disconnects, the calls
\* that return an error included (double start, file-open failure, flush failure on stop),
\* get_recording_status reports a channel active if and only if its file path is present.
C39_ActiveIffPathPresent ==
  fg_pc = "idle" =>
    /\ get_recording_status.text_recording_active <=> get_recording_status.text_file_path # NoValue
    /\ get_recording_status.raw_recording_active <=> get_recording_status.raw_file_path # NoValue

\* what holds of C39: an active channel has its path, and the calls that fail before they
\* touch the handle (double start, file-open failure) change neither handle nor path
C39_ActiveHasPath ==
  /\ [](fg_pc = "idle" =>
          /\ get_recording_status.text_recording_active => get_recording_status.text_file_path # NoValue
          /\ get_recording_status.raw_recording_active => get_recording_status.raw_file_path # NoValue)
  /\ [][ (ret'.op \in {"start_text_recording", "start_raw_recording"} /\ ret'.result # "Ok"
          /\ ret' # ret) =>
           get_recording_status' = get_recording_status ]_vars

\* ------------------------------------------------------------------------
\* Termination of the frame-extraction loop
\* ------------------------------------------------------------------------
\* the reader is in the loop that follows a read: at its condition, or inside a pass
InExtractionLoop == reader_pc \in {"scan", "scan_stats"}

\* C40: the frame-extraction loop run after each read terminates for every buffer content
\* and every delimiter setting, an empty Custom delimiter included: each pass removes at
\* least one byte from the accumulation buffer and nothing adds to the buffer inside the
\* loop, every Received frame it emits is non-empty, and an empty delimiter or an empty
\* buffer ends the loop.
C40_ExtractionLoopTerminates ==
  /\ [][ DelimiterMatchStep =>
           /\ Len(accumulated_data') < Len(accumulated_data)
           /\ Last(emitted').data # <<>>
           /\ Last(logs').direction = "Received"
           /\ Last(logs').data # <<>> ]_vars
  /\ [][ (InExtractionLoop /\ ~DelimiterMatchStep) => accumulated_data' = accumulated_data ]_vars
  /\ []((reader_pc = "scan" /\ (accumulated_data = <<>> \/ seg_config.delimiter = Custom(<<>>))) =>
          ~FirstBoundary(seg_config.delimiter, accumulated_data).some)
  /\ [](\A data \in {<<>>, accumulated_data} : ~find_delimiter(data, <<>>).some)

\* "a\r\nb" under any-newline: one pass took "a\r\n", the next scan found nothing in "b"
\* and the loop was left
C40_Witness ==
  /\ reader_pc = "loop"
  /\ reads = ScriptCRLFthenB
  /\ seg_config.mode = "Combined"
  /\ is_any_newline(seg_config.delimiter)
  /\ EmittedData = << <<97, CR, LF>> >>
  /\ accumulated_data = <<98>>
  /\ cfg_changes = 0


====
